---------------------------- MODULE Spec2Model ----------------------------
(***************************************************************************)
(* The sheet-as-database layer of the guitar practice routine app          *)
(* (src/app/sheets.py): the record codec (sheet_to_records /               *)
(* records_to_sheet) over a remote worksheet grid, and the repositories    *)
(* built on it (Items, routine worksheets, Routines index, ChordCharts,    *)
(* ActiveRoutine cell).                                                    *)
(*                                                                         *)
(* A worksheet is modelled by its data rows (row 2 downwards): a sequence  *)
(* of rows, each a sequence of cell strings.  Blank rows below the last    *)
(* used row are not stored, as the remote grid is blank there.  Cells are  *)
(* strings, exactly as the codec reads them; numbers are parsed out of     *)
(* them with ToInt (int(float(.))) and written back with Str (str(.)).       *)
(***************************************************************************)
EXTENDS Integers, Sequences, FiniteSets, TLC

(***************************************************************************)
(* Bounds of the model.                                                    *)
(***************************************************************************)
\* Most records a repository sheet holds: the add operations are not
\* called beyond it, and payloads are no longer than it.
MaxRecords == 3

\* Largest ID an add operation is let to allocate.
MaxId == 4

(***************************************************************************)
(* Numbers as cell text.                                                   *)
(***************************************************************************)
\* The decimal text of 0, 1, 2, ...: NumStr[n + 1] is str(n).
NumStr == <<"0", "1", "2", "3", "4", "5", "6", "7", "8", "9", "10", "11", "12">>

\* str(n)
Str(n) == IF n < 0 THEN "-" \o NumStr[1 - n] ELSE NumStr[n + 1]

\* The integers whose text the model writes and parses.
Numbers == (1 - Len(NumStr))..(Len(NumStr) - 1)

\* The text of every number of the model.
NumText == [n \in Numbers |-> Str(n)]

\* Whether int(float(s)) succeeds; it raises ValueError on "" and on text.
IsNum(s) == \E n \in Numbers : NumText[n] = s

\* int(float(s)) for a cell that parses.
ToInt(s) == CHOOSE n \in Numbers : NumText[n] = s

\* max(xs, default=d)
MaxOf(S, d) == IF S = {} THEN d ELSE CHOOSE m \in S : \A x \in S : x <= m

Max2(a, b) == IF a >= b THEN a ELSE b

Min2(a, b) == IF a <= b THEN a ELSE b

(***************************************************************************)
(* The column schema.                                                      *)
(***************************************************************************)
ITEMS_COLUMNS == 8

ROUTINE_COLUMNS == 4

ROUTINES_COLUMNS == 4

CHORDCHARTS_COLUMNS == 6

\* chr(ord('A') + idx), idx from 0
ColLetter(idx) == <<"A", "B", "C", "D", "E", "F", "G", "H">>[idx + 1]

\* The column letters of a sheet of n columns.
ColSet(n) == {ColLetter(i) : i \in 0..(n - 1)}

\* ord(col) - ord('A')
ColIndex == [col \in ColSet(8) |-> CHOOSE i \in 0..7 : ColLetter(i) = col]

\* The column count the codec picks from the worksheet title and the flag.
NumColumns(title, is_routine_worksheet) ==
    IF title = "ChordCharts" THEN CHORDCHARTS_COLUMNS
    ELSE IF is_routine_worksheet THEN ROUTINE_COLUMNS
    ELSE ITEMS_COLUMNS

\* record.get(col, '')
Get(record, col) == IF col \in DOMAIN record THEN record[col] ELSE ""

(***************************************************************************)
(* The remote worksheet: ranges read and written through the sheet API.    *)
(***************************************************************************)
RECURSIVE TrimCells(_)
\* A row as the API returns it: trailing empty cells are left out.
TrimCells(row) ==
    IF row = <<>> THEN <<>>
    ELSE IF row[Len(row)] = "" THEN TrimCells(SubSeq(row, 1, Len(row) - 1))
    ELSE row

RECURSIVE TrimRows(_)
\* Rows as the API returns them: trailing blank rows are left out.
TrimRows(rows) ==
    IF rows = <<>> THEN <<>>
    ELSE IF TrimCells(rows[Len(rows)]) = <<>>
         THEN TrimRows(SubSeq(rows, 1, Len(rows) - 1))
    ELSE rows

\* worksheet.get('A2:<last_col>'): the first n columns of the data rows.
WsGet(grid, n) ==
    TrimRows([i \in 1..Len(grid) |->
                TrimCells(SubSeq(grid[i], 1, Min2(n, Len(grid[i]))))])

\* worksheet.update('A2:<col_end><end_row>', rows \o blank rows): rows,
\* followed by blank rows, overwrite the data rows 1 .. range_rows; the
\* rows below the range are left as they are.
WsUpdate(grid, rows, range_rows) ==
    LET blank == [i \in 1..Len(rows[1]) |-> ""]
        upto == Min2(range_rows, Len(grid))
    IN  TrimRows(rows \o [k \in 1..(upto - Len(rows)) |-> blank]
                      \o SubSeq(grid, range_rows + 1, Len(grid)))

\* worksheet.append_row(row): the row goes below the last used row.
WsAppendRow(grid, row) == Append(TrimRows(grid), row)

\* worksheet.col_values(k)[1:]: column k of the data rows, down to the last
\* non-empty cell of that column.
WsColValues(grid, k) ==
    TrimCells([i \in 1..Len(grid) |->
                 IF k <= Len(grid[i]) THEN grid[i][k] ELSE ""])

(***************************************************************************)
(* The record codec.                                                       *)
(***************************************************************************)
\* Rows the clearing part of a write reaches beyond the data.
ClearExtraRows == 50

\* The row a write clears down to at least.
ClearMinEndRow == 100

\* sheet_to_records(worksheet, is_routine_worksheet)
SheetToRecords(title, grid, is_routine_worksheet) ==
    LET num_columns == NumColumns(title, is_routine_worksheet)
        data_rows == WsGet(grid, num_columns)
    IN  [r \in 1..Len(data_rows) |->
           [col \in ColSet(num_columns) |->
              IF ColIndex[col] < Len(data_rows[r])
              THEN data_rows[r][ColIndex[col] + 1] ELSE ""]]

\* The rows of the records, each of the schema's width.
RecordRows(records, num_cols) ==
    [r \in 1..Len(records) |->
       [i \in 1..num_cols |-> Get(records[r], ColLetter(i - 1))]]

\* records_to_sheet(worksheet, records, is_routine_worksheet): the grid it
\* leaves.  It returns True on every path that does not raise.  One update
\* writes the rows and blank rows down to sheet row clear_end_row, which is
\* data row clear_end_row - 1.
RecordsToSheet(title, grid, records, is_routine_worksheet) ==
    IF records = <<>> THEN grid
    ELSE LET rows == RecordRows(records, NumColumns(title, is_routine_worksheet))
             data_end_row == Len(rows) + 1
             clear_end_row == Max2(data_end_row + ClearExtraRows, ClearMinEndRow)
         IN  WsUpdate(grid, rows, clear_end_row - 1)

(***************************************************************************)
(* State.                                                                  *)
(***************************************************************************)
VARIABLES
    items,      \* the data rows of the Items worksheet
    routines,   \* the data rows of the Routines index worksheet
    worksheets, \* the routine worksheets: title (a routine ID) -> data rows
    charts,     \* the data rows of the ChordCharts worksheet
    active,     \* cell A1 of the ActiveRoutine worksheet ("" when empty)
    ret,        \* the last call: its name, arguments or reported IDs, outcome
    cellBefore, \* history: the active cell when the last delete_routine or
                \* set_routine_active began
    allocated,  \* history: sheet -> the largest ID an add has given out in it
    trusted,    \* history: every reorder payload so far was well formed
    threads,    \* thread -> the call it is in: position, arguments, locals
    gate,       \* _last_batch_operation_time and the holder of the lock
    now,        \* time.time(), in ticks
    leaves,     \* history: the instants at which callers left the throttle
    retry,      \* the retry_on_rate_limit call in progress
    conn        \* the caches of get_credentials and get_spread, the token
                \* file, and the history of the connections opened

\* The state of the threads and of the throttle.
procs == <<threads, gate, now, leaves, retry, conn>>

vars == <<items, routines, worksheets, charts, active, ret, cellBefore,
          allocated, trusted, threads, gate, now, leaves, retry, conn>>

\* What the worksheets hold, with the history kept about them.
store == <<items, routines, worksheets, charts, active, ret, cellBefore,
           allocated, trusted>>

\* Threads calling into the repositories at the same time.
NumThreads == 2

Threads == 1..NumThreads

\* The clock stops at MaxTime ticks.
MaxTime == 6

\* A thread that is in no call.
IdleThread == [pc |-> "idle", op |-> "", arg |-> <<>>, records |-> <<>>,
               current_time |-> 0, ok |-> FALSE, spread |-> 0, error |-> ""]

\* min_interval of _throttle_batch_operation: one second, in ticks of half
\* a second.
MinInterval == 2

\* No retry_on_rate_limit call is in progress.
IdleRetry == [pc |-> "idle", max_retries |-> 0, base_delay |-> 0, script |-> <<>>,
              attempt |-> 0, calls |-> 0, sleeps |-> <<>>, result |-> "",
              nested |-> FALSE, outer |-> 0]

\* Connections the model lets get_spread open.
MaxOpens == 3

\* Both lru_cache caches empty; token is what token.json gives: a valid
\* credential or none.  A handle is a positive number, 0 is no handle;
\* opened and returned are the handles opened, and handed to callers,
\* since the caches were last cleared; count is the handles opened so far.
ColdCaches == [token |-> "valid", creds |-> "", spread |-> 0,
               opened |-> {}, returned |-> {}, count |-> 0]

\* No thread is in a call; the throttle has its module-level initial
\* value, and the clock is at least min_interval past it.
InitProcs ==
    /\ conn = ColdCaches
    /\ threads = [t \in Threads |-> IdleThread]
    /\ gate = [last |-> 0, lock |-> 0]
    /\ now = MinInterval
    /\ leaves = <<>>
    /\ retry = IdleRetry

\* What a caller sees of a call: ok is FALSE when the call raised or
\* returned False / None.
Ret(op, ids, ok) == [op |-> op, ids |-> ids, ok |-> ok]

(***************************************************************************)
(* Items repository.                                                       *)
(***************************************************************************)
UpperCase == "ABCDEFGHIJKLMNOPQRSTUVWXYZ"

LowerCase == "abcdefghijklmnopqrstuvwxyz"

RECURSIVE StrLower(_)
\* str.lower(), letter by letter.
StrLower(s) ==
    IF s = "" THEN ""
    ELSE LET c == SubSeq(s, 1, 1)
             low == IF \E k \in 1..Len(UpperCase) : SubSeq(UpperCase, k, k) = c
                    THEN LET k == CHOOSE q \in 1..Len(UpperCase) :
                                     SubSeq(UpperCase, q, q) = c
                         IN  SubSeq(LowerCase, k, k)
                    ELSE c
         IN  low \o StrLower(SubSeq(s, 2, Len(s)))

\* The titles and names the callers of the model pass.
GivenTexts == {"Scales", "SCALES", "Warmup", "warmup", "Songs"}

\* A title with the suffix add_item gives a duplicate.
Suffixed(title, n) == title \o " (" \o Str(n) \o ")"

\* The given texts and what add_item makes of them with one suffix or
\* two.
KnownTexts ==
    LET once == {Suffixed(t, n) : t \in GivenTexts, n \in 1..(MaxRecords + 1)}
        twice == {Suffixed(t, n) : t \in once, n \in 1..(MaxRecords + 1)}
    IN  GivenTexts \cup once \cup twice

\* The lower case of the known texts, computed once.
LowerText == [s \in KnownTexts |-> StrLower(s)]

\* s.lower()
Lower(s) == IF s \in KnownTexts THEN LowerText[s] ELSE StrLower(s)

RECURSIVE ResolveTitleExact(_, _, _, _)
\* The duplicate-title loop comparing the titles as they are written.
ResolveTitleExact(records, base_title, title, count) ==
    IF \E r \in DOMAIN records : records[r]["C"] = title
    THEN ResolveTitleExact(records, base_title,
                           base_title \o " (" \o Str(count) \o ")", count + 1)
    ELSE title

RECURSIVE ResolveTitle(_, _, _, _)
\* The duplicate-title loop of add_item.
ResolveTitle(records, base_title, title, count) ==
    IF \E r \in DOMAIN records : Lower(records[r]["C"]) = Lower(title)
    THEN ResolveTitle(records, base_title,
                      base_title \o " (" \o Str(count) \o ")", count + 1)
    ELSE title

\* Whether every record's cell in col parses as a number.
AllNum(records, col) == \A r \in DOMAIN records : IsNum(records[r][col])

\* add_item with the ID taken from the number of records, not from the
\* largest stored ID.
NewItemCountedId(records, item) ==
    LET new_id == Len(records) + 1
        max_order == MaxOf({ToInt(records[r]["G"]) : r \in DOMAIN records}, -1)
    IN  [col \in ColSet(ITEMS_COLUMNS) |->
           CASE col = "A" -> Str(new_id)
             [] col = "B" -> Str(new_id)
             [] col = "C" -> ResolveTitle(records, Get(item, "C"), Get(item, "C"), 1)
             [] col = "G" -> Str(max_order + 1)
             [] col = "E" -> IF "E" \in DOMAIN item THEN item["E"] ELSE "5"
             [] OTHER -> Get(item, col)]

\* The record add_item stores, given the records read.
NewItem(records, item) ==
    LET new_id == MaxOf({ToInt(records[r]["A"]) : r \in DOMAIN records}, 0) + 1
        max_order == MaxOf({ToInt(records[r]["G"]) : r \in DOMAIN records}, -1)
    IN  [col \in ColSet(ITEMS_COLUMNS) |->
           CASE col = "A" -> Str(new_id)
             [] col = "B" -> Str(new_id)
             [] col = "C" -> ResolveTitle(records, Get(item, "C"), Get(item, "C"), 1)
             [] col = "G" -> Str(max_order + 1)
             [] col = "E" -> IF "E" \in DOMAIN item THEN item["E"] ELSE "5"
             [] OTHER -> Get(item, col)]

\* add_item(item): the grid it leaves and whether it returned the item
\* (it raises ValueError when a stored ID or order does not parse).
AddItemOp(grid, item) ==
    LET records == SheetToRecords("Items", grid, FALSE)
    IN  IF ~(AllNum(records, "A") /\ AllNum(records, "G"))
        THEN [grid |-> grid, ok |-> FALSE, id |-> ""]
        ELSE LET new == NewItem(records, item)
             IN  [grid |-> RecordsToSheet("Items", grid, Append(records, new), FALSE),
                  ok |-> TRUE, id |-> new["A"]]

\* delete_item moving up every remaining order, also those before the
\* deleted one.
DeleteItemRecordsShiftAll(records, item_id) ==
    LET keep == SelectSeq(records, LAMBDA rec : ToInt(rec["A"]) # item_id)
    IN  [r \in 1..Len(keep) |->
           [keep[r] EXCEPT !["G"] = Str(ToInt(keep[r]["G"]) - 1)]]

\* delete_item without its order compaction: the item gone, every other
\* record as it was.
DeleteItemRecordsKeepOrders(records, item_id) ==
    SelectSeq(records, LAMBDA rec : ToInt(rec["A"]) # item_id)

\* The records delete_item writes back: the item gone, later orders moved up.
DeleteItemRecords(records, item_id) ==
    LET deleted_idx == CHOOSE r \in DOMAIN records :
                          /\ ToInt(records[r]["A"]) = item_id
                          /\ \A q \in 1..(r - 1) : ToInt(records[q]["A"]) # item_id
        deleted_order == ToInt(records[deleted_idx]["G"])
        keep == SelectSeq(records, LAMBDA rec : ToInt(rec["A"]) # item_id)
    IN  [r \in 1..Len(keep) |->
           IF ToInt(keep[r]["G"]) > deleted_order
           THEN [keep[r] EXCEPT !["G"] = Str(ToInt(keep[r]["G"]) - 1)]
           ELSE keep[r]]

\* delete_item(item_id): every exception is caught and answered False.
DeleteItemOp(grid, item_id) ==
    LET records == SheetToRecords("Items", grid, FALSE)
    IN  IF ~AllNum(records, "A")
        THEN [grid |-> grid, ok |-> FALSE]
        ELSE IF ~\E r \in DOMAIN records : ToInt(records[r]["A"]) = item_id
        THEN [grid |-> grid, ok |-> FALSE]
        ELSE IF ~AllNum(records, "G")
        THEN [grid |-> grid, ok |-> FALSE]
        ELSE [grid |-> RecordsToSheet("Items", grid,
                                      DeleteItemRecords(records, item_id), FALSE),
              ok |-> TRUE]

\* The record with the fields of the map copied into it, the kept columns
\* excepted.  A key that is no column of the sheet is never written.
WithFields(record, fields, kept) ==
    [col \in DOMAIN record |->
        IF col \in DOMAIN fields /\ col \notin kept THEN fields[col] ELSE record[col]]

\* The position of the first record whose column A is the ID.
FirstIndex(records, id) ==
    CHOOSE r \in DOMAIN records :
        /\ records[r]["A"] = id
        /\ \A q \in 1..(r - 1) : records[q]["A"] # id

\* update_item that copies every field of the map, the ID and the order
\* too.
UpdateItemRecordsAll(records, item_id, item) ==
    LET idx == FirstIndex(records, item_id)
    IN  [records EXCEPT ![idx] = WithFields(records[idx], item, {})]

\* The records update_item writes: the first record with the ID takes the
\* fields of the map other than A and G.
UpdateItemRecords(records, item_id, item) ==
    LET idx == FirstIndex(records, item_id)
    IN  [records EXCEPT ![idx] = WithFields(records[idx], item, {"A", "G"})]

\* update_item(item_id, item): the grid it leaves and whether it returned
\* the item; it raises ValueError when no record has the ID.
UpdateItemOp(grid, item_id, item) ==
    LET records == SheetToRecords("Items", grid, FALSE)
    IN  IF ~\E r \in DOMAIN records : records[r]["A"] = item_id
        THEN [grid |-> grid, ok |-> FALSE]
        ELSE [grid |-> RecordsToSheet("Items", grid,
                                      UpdateItemRecords(records, item_id, item), FALSE),
              ok |-> TRUE]

\* update_items_order(items): the payload, renumbered by position, is
\* written as the sheet.
UpdateItemsOrderOp(grid, payload) ==
    LET renumbered == [i \in 1..Len(payload) |->
                         [col \in DOMAIN payload[i] \cup {"G"} |->
                            IF col = "G" THEN Str(i - 1) ELSE payload[i][col]]]
    IN  RecordsToSheet("Items", grid, renumbered, FALSE)


(***************************************************************************)
(* Routine worksheets: the entries of one routine.                         *)
(***************************************************************************)
\* The non-empty cells of a column, as add_to_routine filters them.
NonEmpty(cells) == {cells[i] : i \in {k \in DOMAIN cells : cells[k] # ""}}

\* add_to_routine(routine_id, item_id): the grid it leaves, whether it
\* returned the new entry, and the entry's ID.  It raises ValueError when
\* the worksheet does not exist or a stored ID or order does not parse.
AddToRoutineOp(sheets, routine_id, item_id) ==
    IF routine_id \notin DOMAIN sheets
    THEN [sheets |-> sheets, ok |-> FALSE, id |-> ""]
    ELSE LET grid == sheets[routine_id]
             id_col == NonEmpty(WsColValues(grid, 1))
             order_col == NonEmpty(WsColValues(grid, 3))
         IN  IF ~(\A c \in id_col \cup order_col : IsNum(c))
             THEN [sheets |-> sheets, ok |-> FALSE, id |-> ""]
             ELSE LET new_id == MaxOf({ToInt(c) : c \in id_col}, 0) + 1
                      max_order == MaxOf({ToInt(c) : c \in order_col}, -1)
                      new_row == <<Str(new_id), item_id, Str(max_order + 1), "FALSE">>
                  IN  [sheets |-> [sheets EXCEPT
                                     ![routine_id] = WsAppendRow(grid, new_row)],
                       ok |-> TRUE, id |-> Str(new_id)]

\* new_orders = {item['A']: item['C'] for item in items}: the order the
\* payload gives an entry ID; the last record naming the ID decides.
NewOrder(payload, id) ==
    LET last == CHOOSE i \in DOMAIN payload :
                    /\ payload[i]["A"] = id
                    /\ \A j \in DOMAIN payload : j > i => payload[j]["A"] # id
    IN  payload[last]["C"]

\* The records update_routine_order writes: an entry the payload names
\* gets the payload's order, every other field and entry is kept.
ReorderedRoutine(existing_items, payload) ==
    [r \in 1..Len(existing_items) |->
       IF \E i \in DOMAIN payload : payload[i]["A"] = existing_items[r]["A"]
       THEN [existing_items[r] EXCEPT
               !["C"] = NewOrder(payload, existing_items[r]["A"])]
       ELSE existing_items[r]]

\* update_routine_order(routine_id, items): a missing worksheet, or a
\* payload record without an 'A' or a 'C' key, raises inside the try and
\* nothing is written.
UpdateRoutineOrderOp(sheets, routine_id, payload) ==
    IF routine_id \notin DOMAIN sheets THEN sheets
    ELSE IF \E i \in DOMAIN payload : ~({"A", "C"} \subseteq DOMAIN payload[i])
    THEN sheets
    ELSE LET existing_items == SheetToRecords(routine_id, sheets[routine_id], TRUE)
         IN  [sheets EXCEPT ![routine_id] =
                RecordsToSheet(routine_id, @,
                               ReorderedRoutine(existing_items, payload), TRUE)]

\* The records update_routine_item writes: item['A'] and item['C'] are set
\* from the record, then record.update(item).
UpdateRoutineItemRecords(records, item_id, item) ==
    LET idx == FirstIndex(records, item_id)
    IN  [records EXCEPT ![idx] = WithFields(records[idx], item, {"A", "C"})]

\* update_routine_item(routine_id, item_id, item): it raises ValueError
\* when the worksheet does not exist or no entry has the ID.
UpdateRoutineItemOp(sheets, routine_id, item_id, item) ==
    IF routine_id \notin DOMAIN sheets
    THEN [sheets |-> sheets, ok |-> FALSE]
    ELSE LET records == SheetToRecords(routine_id, sheets[routine_id], TRUE)
         IN  IF ~\E r \in DOMAIN records : records[r]["A"] = item_id
             THEN [sheets |-> sheets, ok |-> FALSE]
             ELSE [sheets |-> [sheets EXCEPT ![routine_id] =
                                 RecordsToSheet(routine_id, @,
                                     UpdateRoutineItemRecords(records, item_id, item),
                                     TRUE)],
                   ok |-> TRUE]

\* remove_from_routine without its renumbering: the entry gone, every
\* other entry as it was.
RemoveFromRoutineRecordsKeepOrders(records, routine_entry_id) ==
    SelectSeq(records, LAMBDA rec : rec["A"] # routine_entry_id)

\* The records remove_from_routine writes: the entry gone, the others
\* numbered by their row.
RemoveFromRoutineRecords(records, routine_entry_id) ==
    LET keep == SelectSeq(records, LAMBDA rec : rec["A"] # routine_entry_id)
    IN  [i \in 1..Len(keep) |-> [keep[i] EXCEPT !["C"] = Str(i - 1)]]

\* remove_from_routine(routine_id, routine_entry_id): every exception is
\* caught and answered False.
RemoveFromRoutineOp(sheets, routine_id, routine_entry_id) ==
    IF routine_id \notin DOMAIN sheets
    THEN [sheets |-> sheets, ok |-> FALSE]
    ELSE LET records == SheetToRecords(routine_id, sheets[routine_id], TRUE)
         IN  IF ~\E r \in DOMAIN records : records[r]["A"] = routine_entry_id
             THEN [sheets |-> sheets, ok |-> FALSE]
             ELSE [sheets |-> [sheets EXCEPT ![routine_id] =
                                 RecordsToSheet(routine_id, @,
                                     RemoveFromRoutineRecords(records, routine_entry_id),
                                     TRUE)],
                   ok |-> TRUE]

(***************************************************************************)
(* Routines: the index sheet, the routine worksheets, the active cell.     *)
(***************************************************************************)
\* datetime.now() as add_chord_chart and create_routine format it.
Timestamp == "2025-01-01 09:00AM PST"

\* The titles of the worksheets that are not routine worksheets.
FixedTitles == {"Items", "Routines", "ChordCharts", "ActiveRoutine"}

\* name.replace('.', '').isdigit(), on the titles of the model.
IsNumericTitle(name) == name \notin FixedTitles /\ IsNum(name) /\ ToInt(name) >= 0

\* get_all_routine_records()
GetAllRoutineRecords(index) == SheetToRecords("Routines", index, TRUE)

\* get_all_routine_records() with the remote read succeeding or raising:
\* the exception is caught and [] is returned.
GetAllRoutineRecordsRead(index, remote_ok) ==
    IF remote_ok THEN GetAllRoutineRecords(index) ELSE <<>>

\* get_active_routine(): the cell, or None (here "") when it is empty.
GetActiveRoutine(cell) == cell

\* The number texts of the model in the order Python compares strings.
LexOrder == <<"0", "1", "10", "11", "12", "2", "3", "4", "5", "6", "7", "8", "9">>

\* The place of a cell text in that order; the empty string comes first.
LexRank(s) == IF s = "" THEN 0 ELSE CHOOSE i \in DOMAIN LexOrder : LexOrder[i] = s

\* A record put into a sequence sorted on the order text, behind the
\* records whose order text is not greater.
InsertedByOrder(sorted, x) ==
    LET k == Cardinality({i \in DOMAIN sorted :
                            LexRank(sorted[i].order) <= LexRank(x.order)})
    IN  SubSeq(sorted, 1, k) \o <<x>> \o SubSeq(sorted, k + 1, Len(sorted))

RECURSIVE SortedByOrder(_)
\* list.sort(key=lambda x: x['order']): a stable sort on the order text.
SortedByOrder(seq) ==
    IF seq = <<>> THEN <<>>
    ELSE InsertedByOrder(SortedByOrder(SubSeq(seq, 1, Len(seq) - 1)), seq[Len(seq)])

\* get_all_routines with every routine reported active while the cell is
\* not empty.
GetAllRoutinesAllActive(cell, index) ==
    LET routine_records == SheetToRecords("Routines", index, TRUE)
    IN  SortedByOrder([r \in DOMAIN routine_records |->
            [ID |-> routine_records[r]["A"],
             name |-> routine_records[r]["B"],
             created |-> routine_records[r]["C"],
             order |-> routine_records[r]["D"],
             active |-> cell # ""]])

\* get_all_routines(): the index records with their active flag, sorted
\* by order.
GetAllRoutines(cell, index) ==
    LET active_id == cell
        routine_records == SheetToRecords("Routines", index, TRUE)
    IN  SortedByOrder([r \in DOMAIN routine_records |->
            [ID |-> routine_records[r]["A"],
             name |-> routine_records[r]["B"],
             created |-> routine_records[r]["C"],
             order |-> routine_records[r]["D"],
             active |-> IF active_id # ""
                        THEN routine_records[r]["A"] = active_id
                        ELSE FALSE]])

\* set_routine_active that leaves the cell alone when deactivating.
SetRoutineActiveOpNeverClears(cell, routine_id, activate) ==
    IF activate THEN routine_id ELSE cell

\* set_routine_active that clears the cell whenever it deactivates.
SetRoutineActiveOpAlwaysClears(cell, routine_id, activate) ==
    IF activate THEN routine_id ELSE ""

\* set_routine_active(routine_id, active): the cell it leaves.  It returns
\* True on every path that does not raise.
SetRoutineActiveOp(cell, routine_id, activate) ==
    IF activate THEN routine_id
    ELSE IF cell # "" /\ cell = routine_id THEN ""
    ELSE cell

\* used_ids of create_routine: the IDs of the index and the numeric
\* worksheet titles.
UsedIds(current_routines, existing_names) ==
    {ToInt(current_routines[r]["A"]) : r \in DOMAIN current_routines}
    \cup {ToInt(name) : name \in {t \in existing_names : IsNumericTitle(t)}}

\* create_routine(routine_name) from the records get_all_routine_records
\* returned: the index and worksheets it leaves.  It raises when the name
\* is among the records or a stored ID or order does not parse.
CreateRoutineFrom(current_routines, index, sheets, routine_name) ==
    LET existing_names == FixedTitles \cup DOMAIN sheets
    IN  IF \E r \in DOMAIN current_routines :
               Lower(current_routines[r]["B"]) = Lower(routine_name)
        THEN [index |-> index, sheets |-> sheets, ok |-> FALSE, id |-> ""]
        ELSE IF ~(AllNum(current_routines, "A") /\ AllNum(current_routines, "D"))
        THEN [index |-> index, sheets |-> sheets, ok |-> FALSE, id |-> ""]
        ELSE LET used_ids == UsedIds(current_routines, existing_names)
                 new_id == IF used_ids # {} THEN MaxOf(used_ids, 0) + 1 ELSE 1
                 new_order == MaxOf({ToInt(current_routines[r]["D"]) :
                                       r \in DOMAIN current_routines}, -1) + 1
                 new_routine == <<Str(new_id), routine_name, Timestamp, Str(new_order)>>
             IN  [index |-> WsAppendRow(index, new_routine),
                  sheets |-> [t \in DOMAIN sheets \cup {Str(new_id)} |->
                                IF t \in DOMAIN sheets THEN sheets[t] ELSE <<>>],
                  ok |-> TRUE, id |-> Str(new_id)]

\* create_routine(routine_name) with every remote call succeeding.
CreateRoutineOp(index, sheets, routine_name) ==
    CreateRoutineFrom(GetAllRoutineRecords(index), index, sheets, routine_name)

\* create_routine(routine_name) when the read of the index raises inside
\* get_all_routine_records, which catches the exception and returns [].
CreateRoutineUnreadOp(index, sheets, routine_name) ==
    CreateRoutineFrom(GetAllRoutineRecordsRead(index, FALSE), index, sheets,
                      routine_name)

\* create_routine whose append_row raises: the worksheet has been added,
\* the index has no row for it, and the error is raised to the caller.
CreateRoutineOrphanOp(index, sheets, routine_name) ==
    LET res == CreateRoutineOp(index, sheets, routine_name)
    IN  IF res.ok THEN [res EXCEPT !.index = index, !.ok = FALSE] ELSE res

\* The index records delete_routine writes: the routine's row gone, the
\* routines ordered after it moved up.
DeleteRoutineRecords(records, routine_id_int, deleted_order) ==
    LET keep == SelectSeq(records, LAMBDA rec : ToInt(rec["A"]) # routine_id_int)
    IN  [r \in 1..Len(keep) |->
           IF ToInt(keep[r]["D"]) > deleted_order
           THEN [keep[r] EXCEPT !["D"] = Str(ToInt(keep[r]["D"]) - 1)]
           ELSE keep[r]]

\* delete_routine(routine_id): the cell, index and worksheets it leaves.
\* Every exception is caught and answered False; what was written before
\* it stays written.
DeleteRoutineOp(cell, index, sheets, routine_id) ==
    IF ~IsNum(routine_id)
    THEN [cell |-> cell, index |-> index, sheets |-> sheets, ok |-> FALSE]
    ELSE LET routine_id_int == ToInt(routine_id)
             active_id == GetActiveRoutine(cell)
         IN  IF active_id # "" /\ ~IsNum(active_id)
             THEN [cell |-> cell, index |-> index, sheets |-> sheets, ok |-> FALSE]
             ELSE LET cell1 == IF active_id # "" /\ ToInt(active_id) = routine_id_int
                               THEN SetRoutineActiveOp(cell, Str(routine_id_int), FALSE)
                               ELSE cell
                      records == GetAllRoutineRecords(index)
                  IN  IF ~AllNum(records, "A")
                         \/ ~\E r \in DOMAIN records :
                                ToInt(records[r]["A"]) = routine_id_int
                      THEN [cell |-> cell1, index |-> index, sheets |-> sheets,
                            ok |-> FALSE]
                      ELSE LET routine == records[CHOOSE r \in DOMAIN records :
                                   /\ ToInt(records[r]["A"]) = routine_id_int
                                   /\ \A q \in 1..(r - 1) :
                                         ToInt(records[q]["A"]) # routine_id_int]
                               sheets1 == [t \in DOMAIN sheets \ {Str(routine_id_int)}
                                             |-> sheets[t]]
                           IN  IF ~(/\ IsNum(routine["D"])
                                    /\ \A r \in DOMAIN records :
                                          ToInt(records[r]["A"]) # routine_id_int
                                          => IsNum(records[r]["D"]))
                               THEN [cell |-> cell1, index |-> index,
                                     sheets |-> IF IsNum(routine["D"])
                                                THEN sheets1 ELSE sheets,
                                     ok |-> FALSE]
                               ELSE [cell |-> cell1,
                                     index |-> RecordsToSheet("Routines", index,
                                         DeleteRoutineRecords(records, routine_id_int,
                                                              ToInt(routine["D"])),
                                         TRUE),
                                     sheets |-> sheets1,
                                     ok |-> TRUE]

(***************************************************************************)
(* ChordCharts repository.                                                 *)
(***************************************************************************)
\* chord_data.get(key, default)
DataGet(chord_data, key, default) ==
    IF key \in DOMAIN chord_data THEN chord_data[key] ELSE default

\* json.dumps of the chord fields add_chord_chart keeps; of the fields,
\* the model varies the tuning and the section label.
ChordJson(chord_data) ==
    "{tuning: " \o DataGet(chord_data, "tuning", "EADGBE")
        \o ", sectionLabel: " \o DataGet(chord_data, "sectionLabel", "") \o "}"

\* The charts of one item, in sheet order.
ItemCharts(records, item_id) == SelectSeq(records, LAMBDA rec : rec["B"] = item_id)

\* add_chord_chart(item_id, chord_data): it raises ValueError when a stored
\* chord ID, or an order of the item's charts, does not parse.
AddChordChartOp(grid, item_id, chord_data) ==
    LET records == SheetToRecords("ChordCharts", grid, FALSE)
        ids == {records[r]["A"] : r \in {k \in DOMAIN records : records[k]["A"] # ""}}
        item_charts == ItemCharts(records, item_id)
    IN  IF ~((\A c \in ids : IsNum(c)) /\ AllNum(item_charts, "F"))
        THEN [grid |-> grid, ok |-> FALSE, id |-> ""]
        ELSE LET new_id == MaxOf({ToInt(c) : c \in ids}, 0) + 1
                 max_order == MaxOf({ToInt(item_charts[r]["F"]) :
                                       r \in DOMAIN item_charts}, -1)
                 new_record == [A |-> Str(new_id), B |-> item_id,
                                C |-> DataGet(chord_data, "title", "Untitled Chord"),
                                D |-> ChordJson(chord_data), E |-> Timestamp,
                                F |-> Str(max_order + 1)]
             IN  [grid |-> RecordsToSheet("ChordCharts", grid,
                                          Append(records, new_record), FALSE),
                  ok |-> TRUE, id |-> Str(new_id)]

\* The first record with the chord ID: next(r for r in records if ...).
FirstWithId(records, chord_id) ==
    records[CHOOSE r \in DOMAIN records :
               /\ records[r]["A"] = chord_id
               /\ \A q \in 1..(r - 1) : records[q]["A"] # chord_id]

\* The records delete_chord_chart writes: the chart gone, the later charts
\* of its item moved up.
DeleteChordChartRecords(records, chord_id) ==
    LET chart_to_delete == FirstWithId(records, chord_id)
        item_id == chart_to_delete["B"]
        deleted_order == ToInt(chart_to_delete["F"])
        keep == SelectSeq(records, LAMBDA rec : rec["A"] # chord_id)
    IN  [r \in 1..Len(keep) |->
           IF keep[r]["B"] = item_id /\ ToInt(keep[r]["F"]) > deleted_order
           THEN [keep[r] EXCEPT !["F"] = Str(ToInt(keep[r]["F"]) - 1)]
           ELSE keep[r]]

\* The tunings and section labels of the model.
Tunings == {"EADGBE", "DADGAD"}

SectionLabels == {"", "Verse"}

\* The chord fields a ChordData cell of the model can hold.
ChordDatas == [tuning : Tunings, sectionLabel : SectionLabels]

\* json.loads of a ChordData cell; a text that does not parse gives {}.
ParseChordJson(text) ==
    IF \E d \in ChordDatas : ChordJson(d) = text
    THEN CHOOSE d \in ChordDatas : ChordJson(d) = text
    ELSE <<>>

\* existing_chord_data.update(chord_data)
DictUpdate(existing, chord_data) ==
    [k \in DOMAIN existing \cup DOMAIN chord_data |->
        IF k \in DOMAIN chord_data THEN chord_data[k] ELSE existing[k]]

\* The records update_chord_chart writes: the first chart with the ID
\* takes the title, when one is given, and the merged chord data.
UpdateChordChartRecords(records, chord_id, chord_data) ==
    LET idx == FirstIndex(records, chord_id)
        chart_to_update == records[idx]
        existing_chord_data == ParseChordJson(chart_to_update["D"])
    IN  [records EXCEPT ![idx] =
           [chart_to_update EXCEPT
              !["C"] = IF "title" \in DOMAIN chord_data
                       THEN chord_data["title"] ELSE @,
              !["D"] = ChordJson(DictUpdate(existing_chord_data, chord_data))]]

\* update_chord_chart(chord_id, chord_data): it raises ValueError when no
\* chart has the ID, and after the write when the chart's ID, item ID or
\* order does not parse for the returned value.
UpdateChordChartOp(grid, chord_id, chord_data) ==
    LET records == SheetToRecords("ChordCharts", grid, FALSE)
    IN  IF ~\E r \in DOMAIN records : records[r]["A"] = chord_id
        THEN [grid |-> grid, ok |-> FALSE]
        ELSE LET chart == FirstWithId(records, chord_id)
             IN  [grid |-> RecordsToSheet("ChordCharts", grid,
                              UpdateChordChartRecords(records, chord_id, chord_data),
                              FALSE),
                  ok |-> IsNum(chart["A"]) /\ IsNum(chart["B"]) /\ IsNum(chart["F"])]

\* delete_chord_chart(chord_id): ValueError is raised again for an ID the
\* sheet does not hold and for an order that does not parse.
DeleteChordChartOp(grid, chord_id) ==
    LET records == SheetToRecords("ChordCharts", grid, FALSE)
    IN  IF ~\E r \in DOMAIN records : records[r]["A"] = chord_id
        THEN [grid |-> grid, ok |-> FALSE]
        ELSE IF ~(/\ IsNum(FirstWithId(records, chord_id)["F"])
                  /\ \A r \in DOMAIN records :
                        (/\ records[r]["A"] # chord_id
                         /\ records[r]["B"] = FirstWithId(records, chord_id)["B"])
                        => IsNum(records[r]["F"]))
        THEN [grid |-> grid, ok |-> FALSE]
        ELSE [grid |-> RecordsToSheet("ChordCharts", grid,
                                      DeleteChordChartRecords(records, chord_id), FALSE),
              ok |-> TRUE]

\* The requested IDs the sheet holds, in request order, repeats kept.
FoundIds(records, chord_ids) ==
    SelectSeq(chord_ids, LAMBDA cid : \E r \in DOMAIN records : records[r]["A"] = cid)

\* items_affected[item_id]: the orders of the charts found for the item,
\* one for each time a chart of the item is requested.
DeletedOrders(records, chord_ids, item_id) ==
    LET found == FoundIds(records, chord_ids)
        ofItem == SelectSeq(found,
                      LAMBDA cid : FirstWithId(records, cid)["B"] = item_id)
    IN  [i \in 1..Len(ofItem) |-> ToInt(FirstWithId(records, ofItem[i])["F"])]

\* The records batch_delete_chord_charts writes: the requested charts
\* gone, every chart of an affected item moved up by the number of deleted
\* orders below its own.
BatchDeleteRecords(records, chord_ids) ==
    LET requested == {chord_ids[i] : i \in DOMAIN chord_ids}
        keep == SelectSeq(records, LAMBDA rec : rec["A"] \notin requested)
        affected == {FirstWithId(records, cid)["B"] :
                        cid \in {c \in requested :
                                   \E r \in DOMAIN records : records[r]["A"] = c}}
    IN  [r \in 1..Len(keep) |->
           IF keep[r]["B"] \in affected
           THEN LET deleted_orders == DeletedOrders(records, chord_ids, keep[r]["B"])
                    current_order == ToInt(keep[r]["F"])
                    adjustments == Cardinality({i \in DOMAIN deleted_orders :
                                                 deleted_orders[i] < current_order})
                IN  IF adjustments > 0
                    THEN [keep[r] EXCEPT !["F"] = Str(current_order - adjustments)]
                    ELSE keep[r]
           ELSE keep[r]]

\* batch_delete_chord_charts(chord_ids): the grid it leaves and the result
\* it returns.  Every exception (an order that does not parse) is caught
\* and answered with the failed manifest.
BatchDeleteChordChartsOp(grid, chord_ids) ==
    IF chord_ids = <<>>
    THEN [grid |-> grid, success |-> TRUE, deleted |-> <<>>,
          not_found |-> <<>>, failed |-> <<>>]
    ELSE LET records == SheetToRecords("ChordCharts", grid, FALSE)
             found == FoundIds(records, chord_ids)
             affected == {FirstWithId(records, found[i])["B"] : i \in DOMAIN found}
         IN  IF ~(/\ \A i \in DOMAIN found :
                          IsNum(FirstWithId(records, found[i])["F"])
                  /\ \A r \in DOMAIN records :
                          (records[r]["B"] \in affected
                             /\ records[r]["A"] \notin {found[i] : i \in DOMAIN found})
                          => IsNum(records[r]["F"]))
             THEN [grid |-> grid, success |-> FALSE, deleted |-> <<>>,
                   not_found |-> <<>>, failed |-> chord_ids]
             ELSE [grid |-> RecordsToSheet("ChordCharts", grid,
                                           BatchDeleteRecords(records, chord_ids), FALSE),
                   success |-> TRUE,
                   deleted |-> found,
                   not_found |-> SelectSeq(chord_ids,
                       LAMBDA cid : ~\E r \in DOMAIN records : records[r]["A"] = cid),
                   failed |-> <<>>]

\* new_orders = {chart['id']: i for i, chart in enumerate(chord_charts)}:
\* the last position at which the payload names the chart ID.
NewChartOrder(chord_charts, chart_id) ==
    (CHOOSE i \in DOMAIN chord_charts :
        /\ chord_charts[i]["id"] = chart_id
        /\ \A j \in DOMAIN chord_charts : j > i => chord_charts[j]["id"] # chart_id) - 1

\* update_chord_charts_order(item_id, chord_charts): the charts of the item
\* that the payload names get the payload position as order.  A payload
\* record without an 'id' key raises and nothing is written.
UpdateChordChartsOrderOp(grid, item_id, chord_charts) ==
    IF \E i \in DOMAIN chord_charts : "id" \notin DOMAIN chord_charts[i]
    THEN grid
    ELSE LET records == SheetToRecords("ChordCharts", grid, FALSE)
             updated == [r \in 1..Len(records) |->
                 IF /\ records[r]["B"] = item_id
                    /\ \E i \in DOMAIN chord_charts :
                          chord_charts[i]["id"] = records[r]["A"]
                 THEN [records[r] EXCEPT
                         !["F"] = Str(NewChartOrder(chord_charts, records[r]["A"]))]
                 ELSE records[r]]
         IN  RecordsToSheet("ChordCharts", grid, updated, FALSE)

(***************************************************************************)
(* The Items repository as a state machine.                                *)
(***************************************************************************)
\* What callers pass to add_item: a title, or a title with an ID and an
\* order of the caller's own, which add_item overwrites.
ItemInputs == {[A |-> "9", C |-> "Scales", G |-> "9"]}

\* A record a reorder payload may carry that the sheet does not hold; it
\* has no ID.
ForeignItem == [C |-> "Lick"]

\* Sequences over S of length at most n.
SeqsUpTo(S, n) == UNION {[1..k -> S] : k \in 0..n}

\* The permutations of 1..n.
Perms(n) == {p \in [1..n -> 1..n] : \A i, j \in 1..n : i # j => p[i] # p[j]}

\* seq without its k-th element.
Without(seq, k) == SubSeq(seq, 1, k - 1) \o SubSeq(seq, k + 1, Len(seq))

\* The reorder payloads tried on a sheet holding records: the records in
\* every order, the empty payload, a record missing, a record sent twice,
\* a record the sheet does not hold.
Payloads(records, foreign) ==
    LET n == Len(records)
    IN  {[i \in 1..n |-> records[p[i]]] : p \in Perms(n)}
        \cup {<<>>}
        \cup {Without(records, k) : k \in 1..n}
        \cup (IF n < MaxRecords
              THEN {Append(records, records[k]) : k \in 1..n}
                   \cup {Append(records, foreign)}
              ELSE {})

\* Whether a payload holds each stored item once and nothing else.
NamesEachItemOnce(records, payload) ==
    /\ Len(payload) = Len(records)
    /\ {Get(payload[i], "A") : i \in DOMAIN payload}
          = {records[r]["A"] : r \in DOMAIN records}

\* add_item(item) is called.
AddItemWith(item) ==
    LET records == SheetToRecords("Items", items, FALSE)
        res == AddItemOp(items, item)
    IN  /\ Len(records) < MaxRecords
        /\ res.ok => ToInt(res.id) <= MaxId
        /\ items' = res.grid
        /\ ret' = Ret("add_item", <<res.id>>, res.ok)
        /\ allocated' = IF res.ok
                         THEN [allocated EXCEPT
                                 !["Items"] = Max2(@, ToInt(res.id))]
                         ELSE allocated
        /\ UNCHANGED <<procs, routines, worksheets, charts, active, cellBefore, trusted>>

AddItem == \E item \in ItemInputs : AddItemWith(item)

\* Titles in two spellings, and one that looks like a resolved duplicate.
TitledInputs == {[C |-> "Scales"], [C |-> "SCALES"], [C |-> "Scales (1)"]}

AddTitledItem == \E item \in TitledInputs : AddItemWith(item)

DeleteItem ==
    \E item_id \in 1..MaxId :
        LET res == DeleteItemOp(items, item_id)
        IN  /\ items' = res.grid
            /\ ret' = Ret("delete_item", <<Str(item_id)>>, res.ok)
            /\ UNCHANGED <<procs, routines, worksheets, charts, active, cellBefore,
                           allocated, trusted>>

UpdateItemsOrder ==
    \E payload \in Payloads(SheetToRecords("Items", items, FALSE), ForeignItem) :
            /\ items' = UpdateItemsOrderOp(items, payload)
            /\ ret' = Ret("update_items_order", <<>>, TRUE)
            /\ trusted' = (trusted /\
                             NamesEachItemOnce(SheetToRecords("Items", items, FALSE),
                                               payload))
            /\ UNCHANGED <<procs, routines, worksheets, charts, active, cellBefore, allocated>>

\* The field maps passed to update_item: a title that another item may
\* have, a title in another spelling with an ID and an order of the
\* caller's own, and notes.
ItemUpdates == {[C |-> "Scales"],
                [A |-> "9", C |-> "SCALES", G |-> "9"],
                [D |-> "slowly"]}

UpdateItem ==
    \E item_id \in 1..MaxId, item \in ItemUpdates :
        LET res == UpdateItemOp(items, Str(item_id), item)
        IN  /\ items' = res.grid
            /\ ret' = Ret("update_item", <<Str(item_id)>>, res.ok)
            /\ UNCHANGED <<procs, routines, worksheets, charts, active, cellBefore,
                           allocated, trusted>>

(***************************************************************************)
(* A routine worksheet as a state machine.                                 *)
(***************************************************************************)
\* The routine the entry operations are called on.
TheRoutine == "1"

\* The entries of a routine worksheet as a reader gets them.
RoutineRecords(routine_id) == SheetToRecords(routine_id, worksheets[routine_id], TRUE)

\* The reorder payloads tried on a routine holding records: every full
\* assignment of 0..n-1, the empty payload, one entry given order 0 or n
\* (a duplicate or a gap), an entry named twice, an ID the routine does not hold, a record without
\* its order key.
RoutinePayloads(records) ==
    LET n == Len(records)
    IN  {[i \in 1..n |-> [A |-> records[i]["A"], C |-> Str(p[i] - 1)]] :
            p \in Perms(n)}
        \cup {<<>>, <<[A |-> "9", C |-> "0"]>>}
        \cup {<<[A |-> records[k]["A"], C |-> Str(o)]>> :
                 k \in 1..n, o \in {0, n}}
        \cup {<<[A |-> records[k]["A"], C |-> "0"],
                [A |-> records[k]["A"], C |-> "1"]>> : k \in 1..n}
        \cup {<<[A |-> records[k]["A"]]>> : k \in 1..n}

\* Whether a payload names every entry once and hands out 0..n-1.
FullDenseAssignment(records, payload) ==
    /\ Len(payload) = Len(records)
    /\ \A i \in DOMAIN payload : {"A", "C"} \subseteq DOMAIN payload[i]
    /\ {payload[i]["A"] : i \in DOMAIN payload}
          = {records[r]["A"] : r \in DOMAIN records}
    /\ \A i \in DOMAIN payload : IsNum(payload[i]["C"])
    /\ {ToInt(payload[i]["C"]) : i \in DOMAIN payload} = 0..(Len(records) - 1)

AddToRoutine ==
    \E item_id \in {"1"} :
        LET res == AddToRoutineOp(worksheets, TheRoutine, item_id)
        IN  /\ TheRoutine \in DOMAIN worksheets
            /\ Len(RoutineRecords(TheRoutine)) < MaxRecords
            /\ res.ok => ToInt(res.id) <= MaxId
            /\ worksheets' = res.sheets
            /\ ret' = Ret("add_to_routine", <<res.id>>, res.ok)
            /\ allocated' = IF res.ok
                             THEN [allocated EXCEPT
                                     !["Routine"] = Max2(@, ToInt(res.id))]
                             ELSE allocated
            /\ UNCHANGED <<procs, items, routines, charts, active, cellBefore, trusted>>

RemoveFromRoutine ==
    \E entry \in 1..MaxId :
        LET res == RemoveFromRoutineOp(worksheets, TheRoutine, Str(entry))
        IN  /\ worksheets' = res.sheets
            /\ ret' = Ret("remove_from_routine", <<Str(entry)>>, res.ok)
            /\ UNCHANGED <<procs, items, routines, charts, active, cellBefore,
                           allocated, trusted>>

\* The field map passed to update_routine_item: a completed flag with an
\* ID and an order of the caller's own.
EntryUpdates == {[A |-> "9", C |-> "9", D |-> "TRUE"]}

UpdateRoutineItem ==
    \E item_id \in 1..MaxId, item \in EntryUpdates :
        LET res == UpdateRoutineItemOp(worksheets, TheRoutine, Str(item_id), item)
        IN  /\ worksheets' = res.sheets
            /\ ret' = Ret("update_routine_item", <<Str(item_id)>>, res.ok)
            /\ UNCHANGED <<procs, items, routines, charts, active, cellBefore,
                           allocated, trusted>>

UpdateRoutineOrder ==
    /\ TheRoutine \in DOMAIN worksheets
    /\ \E payload \in RoutinePayloads(RoutineRecords(TheRoutine)) :
          /\ worksheets' = UpdateRoutineOrderOp(worksheets, TheRoutine, payload)
          /\ ret' = Ret("update_routine_order", <<>>, TRUE)
          /\ trusted' = (trusted /\
                           FullDenseAssignment(RoutineRecords(TheRoutine), payload))
          /\ UNCHANGED <<procs, items, routines, charts, active, cellBefore, allocated>>

(***************************************************************************)
(* The ChordCharts sheet as a state machine.                               *)
(***************************************************************************)
\* The items chord charts are added to.
ChartItems == {"1", "2"}

ChartRecords == SheetToRecords("ChordCharts", charts, FALSE)

\* The reorder payloads tried for an item: its charts in every order, the
\* empty payload, one chart alone, every chart of the sheet, a record
\* without its id key.
ChartPayloads(records, item_id) ==
    LET mine == ItemCharts(records, item_id)
        n == Len(mine)
    IN  {[i \in 1..n |-> [id |-> mine[p[i]]["A"]]] : p \in Perms(n)}
        \cup {<<>>, <<[title |-> "Am"]>>}
        \cup {<<[id |-> mine[k]["A"]]>> : k \in 1..n}
        \cup {[r \in 1..Len(records) |-> [id |-> records[r]["A"]]]}

\* Whether a payload names each chart of the item once and nothing else.
NamesItemCharts(records, item_id, payload) ==
    LET mine == ItemCharts(records, item_id)
    IN  /\ Len(payload) = Len(mine)
        /\ \A i \in DOMAIN payload : "id" \in DOMAIN payload[i]
        /\ {payload[i]["id"] : i \in DOMAIN payload}
              = {mine[r]["A"] : r \in DOMAIN mine}

AddChordChart ==
    \E item_id \in ChartItems, chord_data \in {[title |-> "Am"]} :
        LET res == AddChordChartOp(charts, item_id, chord_data)
        IN  /\ Len(ChartRecords) < MaxRecords
            /\ res.ok => ToInt(res.id) <= MaxId
            /\ charts' = res.grid
            /\ ret' = Ret("add_chord_chart", <<res.id>>, res.ok)
            /\ allocated' = IF res.ok
                             THEN [allocated EXCEPT
                                     !["ChordCharts"] = Max2(@, ToInt(res.id))]
                             ELSE allocated
            /\ UNCHANGED <<procs, items, routines, worksheets, active, cellBefore, trusted>>

\* The chord data passed to update_chord_chart: a title, and a tuning
\* with an id and an order of the caller's own.
ChartUpdates == {[title |-> "Bm"], [tuning |-> "DADGAD", id |-> "9", order |-> "9"]}

UpdateChordChart ==
    \E chord_id \in 1..MaxId, chord_data \in ChartUpdates :
        LET res == UpdateChordChartOp(charts, Str(chord_id), chord_data)
        IN  /\ charts' = res.grid
            /\ ret' = Ret("update_chord_chart", <<Str(chord_id)>>, res.ok)
            /\ UNCHANGED <<procs, items, routines, worksheets, active, cellBefore,
                           allocated, trusted>>

DeleteChordChart ==
    \E chord_id \in 1..MaxId :
        LET res == DeleteChordChartOp(charts, Str(chord_id))
        IN  /\ charts' = res.grid
            /\ ret' = Ret("delete_chord_chart", <<Str(chord_id)>>, res.ok)
            /\ UNCHANGED <<procs, items, routines, worksheets, active, cellBefore,
                           allocated, trusted>>

\* Whether every order of the sheet is at or above -1.  A list that names
\* an ID twice lowers the orders after it twice, so that repeated calls
\* lower them without end; the model follows them one step below zero.
OrdersStayInRange(grid) ==
    LET records == SheetToRecords("ChordCharts", grid, FALSE)
    IN  \A r \in DOMAIN records :
            IsNum(records[r]["F"]) => ToInt(records[r]["F"]) >= -1

\* The ID lists passed to batch_delete_chord_charts: no ID, one ID, two
\* IDs in ascending order, one ID named twice.
BatchLists ==
    LET ids == 1..MaxId
    IN  {<<>>} \cup {<<Str(a)>> : a \in ids}
               \cup {<<Str(p[1]), Str(p[2])>> :
                        p \in {q \in ids \X ids : q[1] <= q[2]}}

BatchDeleteChordCharts ==
    \E chord_ids \in BatchLists :
        LET res == BatchDeleteChordChartsOp(charts, chord_ids)
        IN  /\ OrdersStayInRange(res.grid)
            /\ charts' = res.grid
            /\ ret' = Ret("batch_delete_chord_charts", res.deleted, res.success)
            /\ UNCHANGED <<procs, items, routines, worksheets, active, cellBefore,
                           allocated, trusted>>

UpdateChordChartsOrder ==
    \E item_id \in ChartItems :
        \E payload \in ChartPayloads(ChartRecords, item_id) :
            /\ charts' = UpdateChordChartsOrderOp(charts, item_id, payload)
            /\ ret' = Ret("update_chord_charts_order", <<>>,
                          \A i \in DOMAIN payload : "id" \in DOMAIN payload[i])
            /\ trusted' = (trusted /\ NamesItemCharts(ChartRecords, item_id, payload))
            /\ UNCHANGED <<procs, items, routines, worksheets, active, cellBefore, allocated>>

(***************************************************************************)
(* The routines as a state machine.                                        *)
(***************************************************************************)
\* The names routines are created with.
RoutineNames == {"Warmup", "warmup", "Songs"}

RoutineIndex == GetAllRoutineRecords(routines)

CreateRoutine ==
    \E routine_name \in RoutineNames :
        LET res == CreateRoutineOp(routines, worksheets, routine_name)
        IN  /\ Len(RoutineIndex) < MaxRecords
            /\ res.ok => ToInt(res.id) <= MaxId
            /\ routines' = res.index
            /\ worksheets' = res.sheets
            /\ ret' = Ret("create_routine", <<res.id>>, res.ok)
            /\ allocated' = IF res.ok
                             THEN [allocated EXCEPT
                                     !["Routines"] = Max2(@, ToInt(res.id))]
                             ELSE allocated
            /\ UNCHANGED <<procs, items, charts, active, cellBefore, trusted>>

\* create_routine(routine_name) with the remote read of the index failing.
CreateRoutineUnread ==
    \E routine_name \in RoutineNames :
        LET res == CreateRoutineUnreadOp(routines, worksheets, routine_name)
        IN  /\ Len(RoutineIndex) < MaxRecords
            /\ res.ok => ToInt(res.id) <= MaxId
            /\ routines' = res.index
            /\ worksheets' = res.sheets
            /\ ret' = Ret("create_routine", <<res.id>>, res.ok)
            /\ allocated' = IF res.ok
                             THEN [allocated EXCEPT
                                     !["Routines"] = Max2(@, ToInt(res.id))]
                             ELSE allocated
            /\ UNCHANGED <<procs, items, charts, active, cellBefore, trusted>>

\* create_routine(routine_name) with the remote append failing.
CreateRoutineOrphan ==
    \E routine_name \in RoutineNames :
        LET res == CreateRoutineOrphanOp(routines, worksheets, routine_name)
        IN  /\ res.id # "" => ToInt(res.id) <= MaxId
            /\ worksheets' = res.sheets
            /\ ret' = Ret("create_routine", <<res.id>>, FALSE)
            /\ UNCHANGED <<procs, items, routines, charts, active, cellBefore,
                           allocated, trusted>>

DeleteRoutine ==
    \E routine_id \in 1..MaxId :
        LET res == DeleteRoutineOp(active, routines, worksheets, Str(routine_id))
        IN  /\ active' = res.cell
            /\ routines' = res.index
            /\ worksheets' = res.sheets
            /\ cellBefore' = active
            /\ ret' = Ret("delete_routine", <<Str(routine_id)>>, res.ok)
            /\ UNCHANGED <<procs, items, charts, allocated, trusted>>

SetRoutineActive ==
    \E routine_id \in 1..MaxId, activate \in BOOLEAN :
        /\ active' = SetRoutineActiveOp(active, Str(routine_id), activate)
        /\ cellBefore' = active
        /\ ret' = Ret("set_routine_active",
                      <<Str(routine_id), IF activate THEN "True" ELSE "False">>, TRUE)
        /\ UNCHANGED <<procs, items, routines, worksheets, charts, allocated, trusted>>

\* A fresh spreadsheet: the fixed worksheets exist and hold no data rows.
Init ==
    /\ InitProcs
    /\ items = <<>>
    /\ routines = <<>>
    /\ worksheets = <<>>
    /\ charts = <<>>
    /\ active = ""
    /\ ret = Ret("none", <<>>, TRUE)
    /\ cellBefore = ""
    /\ allocated = [s \in {"Items", "Routines", "ChordCharts", "Routine"} |-> 0]
    /\ trusted = TRUE

\* A spreadsheet in which one routine has been created: its index row and
\* its worksheet, which holds no entries yet.
InitRoutine ==
    /\ InitProcs
    /\ items = <<>>
    /\ routines = <<<<"1", "Warmup", "2025-01-01 09:00AM PST", "0">>>>
    /\ worksheets = [t \in {TheRoutine} |-> <<>>]
    /\ charts = <<>>
    /\ active = ""
    /\ ret = Ret("none", <<>>, TRUE)
    /\ cellBefore = ""
    /\ allocated = [s \in {"Items", "Routines", "ChordCharts", "Routine"} |->
                      IF s = "Routines" THEN 1 ELSE 0]
    /\ trusted = TRUE

\* What a call with an ID that no record has hands its caller: the
\* updates and delete_chord_chart raise ValueError, delete_item and
\* remove_from_routine return False.
AbsentOutcome(op) ==
    IF op \in {"delete_item", "remove_from_routine"} THEN "False" ELSE "ValueError"

\* The status the route of the operation answers for that outcome: the
\* item route discards the result of delete_item and answers 204, the
\* chord chart route answers 404 for a ValueError that says "not found",
\* every other route answers 500.
RouteStatus(op, outcome) ==
    CASE op = "delete_item" -> 204
      [] op = "delete_chord_chart" /\ outcome = "ValueError" -> 404
      [] OTHER -> 500

\* A spreadsheet after two add_item calls, two add_to_routine calls on the
\* routine and two add_chord_chart calls.
InitUpdates ==
    /\ InitProcs
    /\ items = AddItemOp(AddItemOp(<<>>, [C |-> "Scales"]).grid,
                         [C |-> "Warmup"]).grid
    /\ routines = <<<<"1", "Warmup", "2025-01-01 09:00AM PST", "0">>>>
    /\ worksheets = AddToRoutineOp(
                        AddToRoutineOp([t \in {TheRoutine} |-> <<>>],
                                       TheRoutine, "1").sheets,
                        TheRoutine, "1").sheets
    /\ charts = AddChordChartOp(
                    AddChordChartOp(<<>>, "1", [title |-> "Am"]).grid,
                    "1", [title |-> "Am"]).grid
    /\ active = ""
    /\ ret = Ret("none", <<>>, TRUE)
    /\ cellBefore = ""
    /\ allocated = [s \in {"Items", "Routines", "ChordCharts", "Routine"} |->
                      IF s = "Routines" THEN 1 ELSE 2]
    /\ trusted = TRUE

(***************************************************************************)
(* The codec as a state machine: records_to_sheet called on a worksheet of *)
(* each kind, whatever the worksheet holds.                                *)
(***************************************************************************)
\* The worksheets written: Items (8 columns), a routine worksheet
\* (4 columns), ChordCharts (6 columns).
CodecTitles == {"Items", TheRoutine, "ChordCharts"}

\* The flag the repositories pass for the worksheet.
IsRoutineWorksheet(title) == title \notin {"Items", "ChordCharts"}

\* The data rows of the worksheet.
SheetOf(title) ==
    CASE title = "Items" -> items
      [] title = "ChordCharts" -> charts
      [] OTHER -> worksheets[title]

\* The records written: one with every column of the kind, one with column
\* A alone, one with columns A and C.
CodecRecords(title) ==
    {[col \in ColSet(NumColumns(title, IsRoutineWorksheet(title))) |-> col \o "1"],
     [A |-> "2"],
     [A |-> "3", C |-> "Lick"]}

\* A record with the keys it lacks read as the empty string.
Padded(title, record) ==
    [col \in ColSet(NumColumns(title, IsRoutineWorksheet(title))) |-> Get(record, col)]

\* What sheet_to_records returns for the worksheet.
ReadBack(title) == SheetToRecords(title, SheetOf(title), IsRoutineWorksheet(title))

\* records_to_sheet(worksheet, records, is_routine_worksheet) on one of
\* the worksheets; the worksheets of the other kinds hold no data rows.
WriteRecords ==
    \E title \in CodecTitles :
        \E records \in SeqsUpTo(CodecRecords(title), MaxRecords) :
            LET grid == RecordsToSheet(title, SheetOf(title), records,
                                       IsRoutineWorksheet(title))
            IN  /\ \A t \in CodecTitles \ {title} : SheetOf(t) = <<>>
                /\ items' = IF title = "Items" THEN grid ELSE items
                /\ charts' = IF title = "ChordCharts" THEN grid ELSE charts
                /\ worksheets' = IF IsRoutineWorksheet(title)
                                 THEN [worksheets EXCEPT ![title] = grid]
                                 ELSE worksheets
                /\ ret' = Ret("records_to_sheet", <<title, records>>, TRUE)
                /\ UNCHANGED <<procs, routines, active, cellBefore, allocated, trusted>>

(***************************************************************************)
(* Specifications.                                                         *)
(***************************************************************************)
NextItems == AddItem \/ DeleteItem \/ UpdateItemsOrder

\* The Items sheet under add_item, delete_item and update_items_order.
SpecItems == Init /\ [][NextItems]_vars

\* The same, with update_items_order given only payloads that name each
\* stored item once.
NextItemsReordered == AddItem \/ DeleteItem \/ (UpdateItemsOrder /\ trusted')

SpecItemsReordered == Init /\ [][NextItemsReordered]_vars

NextTitles == AddTitledItem \/ DeleteItem

\* The Items sheet under add_item with titles that collide and
\* delete_item.
SpecTitles == Init /\ [][NextTitles]_vars

NextItemUpdates == AddItem \/ UpdateItem

\* The Items sheet under add_item and update_item.
SpecItemUpdates == Init /\ [][NextItemUpdates]_vars

NextRoutine == AddToRoutine \/ RemoveFromRoutine \/ UpdateRoutineOrder

\* One routine worksheet under add_to_routine, remove_from_routine and
\* update_routine_order.
SpecRoutine == InitRoutine /\ [][NextRoutine]_vars

NextCharts ==
    AddChordChart \/ DeleteChordChart \/ BatchDeleteChordCharts \/ UpdateChordChartsOrder

\* The ChordCharts sheet under its add, delete, batch delete and reorder.
SpecCharts == Init /\ [][NextCharts]_vars

NextRoutines == CreateRoutine \/ DeleteRoutine \/ SetRoutineActive

\* The Routines index, the routine worksheets and the active cell under
\* create_routine, delete_routine and set_routine_active.
SpecRoutines == Init /\ [][NextRoutines]_vars

NextRoutineIds == CreateRoutine \/ CreateRoutineOrphan \/ DeleteRoutine

\* create_routine, with and without a failure after the worksheet is
\* added, and delete_routine.
SpecRoutineIds == Init /\ [][NextRoutineIds]_vars

NextRoutineReads == CreateRoutine \/ CreateRoutineUnread \/ DeleteRoutine

\* create_routine with the read of the index succeeding and failing, and
\* delete_routine.
SpecRoutineReads == Init /\ [][NextRoutineReads]_vars

NextUpdates == UpdateItem \/ UpdateRoutineItem \/ UpdateChordChart

\* The three single-record updates on sheets of two records each.
SpecUpdates == InitUpdates /\ [][NextUpdates]_vars

NextRefs == AddItem \/ DeleteItem \/ AddToRoutine \/ RemoveFromRoutine

\* Items added and deleted while entries naming an item are added to and
\* removed from the routine.
SpecRefs == InitRoutine /\ [][NextRefs]_vars

\* The operations of the Items, the ChordCharts and the routine
\* repositories read and write disjoint worksheets.  A behaviour fills the
\* sheets of one of the three: an operation of a repository is called
\* while the sheets of the other two hold no records.
NoItems == items = <<>>

NoCharts == charts = <<>>

NoRoutines == routines = <<>> /\ worksheets = <<>>

NextCrud ==
    \/ NoCharts /\ NoRoutines /\ AddItem
    \/ NoCharts /\ NoRoutines /\ DeleteItem
    \/ NoItems /\ NoCharts /\ CreateRoutine
    \/ NoItems /\ NoCharts /\ AddToRoutine
    \/ NoItems /\ NoCharts /\ RemoveFromRoutine
    \/ NoItems /\ NoCharts /\ DeleteRoutine
    \/ NoItems /\ NoRoutines /\ AddChordChart
    \/ NoItems /\ NoRoutines /\ DeleteChordChart
    \/ NoItems /\ NoRoutines /\ BatchDeleteChordCharts

\* The add and delete operations of every repository, called one after
\* the other.
SpecCrud == Init /\ [][NextCrud]_vars

NextAbsent ==
    \/ NoCharts /\ NoRoutines /\ AddItem
    \/ NoCharts /\ NoRoutines /\ UpdateItem
    \/ NoCharts /\ NoRoutines /\ DeleteItem
    \/ NoItems /\ NoCharts /\ CreateRoutine
    \/ NoItems /\ NoCharts /\ AddToRoutine
    \/ NoItems /\ NoCharts /\ UpdateRoutineItem
    \/ NoItems /\ NoCharts /\ RemoveFromRoutine
    \/ NoItems /\ NoRoutines /\ AddChordChart
    \/ NoItems /\ NoRoutines /\ UpdateChordChart
    \/ NoItems /\ NoRoutines /\ DeleteChordChart

\* The updates and the single-record deletes of every repository, each
\* called with IDs the sheet holds and IDs it does not hold, on sheets
\* filled by the adds.
SpecAbsent == Init /\ [][NextAbsent]_vars

\* records_to_sheet called again and again on one worksheet.
\* ---- retry_on_rate_limit ----

\* The largest max_retries and base_delay the calls are made with.
MaxRetries == 3

MaxBaseDelay == 2

\* The messages of the errors the wrapped operation raises.
ErrorMessages == {"Quota exceeded for quota metric", "RATE_LIMIT_EXCEEDED",
                  "429 Too Many Requests", "503 Service Unavailable",
                  "Worksheet not found"}

\* phrase in error_str
Contains(error_str, phrase) ==
    \E i \in 1..(Len(error_str) - Len(phrase) + 1) :
        SubSeq(error_str, i, i + Len(phrase) - 1) = phrase

\* is_rate_limit of retry_on_rate_limit.
IsRateLimit(message) ==
    LET error_str == StrLower(message)
    IN  \E phrase \in {"quota exceeded", "rate_limit_exceeded", "too many requests"} :
            Contains(error_str, phrase)

\* The classification of the model's messages, computed once.
RateLimited == [m \in ErrorMessages |-> IsRateLimit(m)]

\* is_rate_limit of ChordImporter.retry_with_backoff.
IsRateLimitBackoff(message) ==
    LET error_str == StrLower(message)
    IN  \E phrase \in {"quota exceeded", "rate_limit_exceeded", "too many requests",
                        "service unavailable", "internal error"} :
            Contains(error_str, phrase)

\* That classification of the model's messages, computed once.
BackoffRateLimited == [m \in ErrorMessages |-> IsRateLimitBackoff(m)]

\* A delay that grows by base_delay with each attempt.
DelayLinear(base_delay, attempt) == base_delay * (attempt + 1)

\* delay = base_delay * (2 ** attempt)
Delay(base_delay, attempt) == base_delay * (2 ^ attempt)

\* A retry test that also holds on the last attempt.
RetriesRemainInclusive(attempt, max_retries) == attempt <= max_retries

\* attempt < max_retries
RetriesRemain(attempt, max_retries) == attempt < max_retries

\* What the wrapped operation does: it raises the errors of the script,
\* one for each invocation, and succeeds after them.
Scripts == SeqsUpTo(ErrorMessages, MaxRetries + 1)

\* retry_on_rate_limit(func, max_retries, base_delay) is called.
RetryCall ==
    /\ retry.pc = "idle"
    /\ \E max_retries \in 0..MaxRetries, base_delay \in 1..MaxBaseDelay,
          script \in Scripts :
        /\ retry' = [IdleRetry EXCEPT !.pc = "loop", !.max_retries = max_retries,
                                      !.base_delay = base_delay, !.script = script]
        /\ UNCHANGED <<store, threads, gate, now, leaves, conn>>

\* One pass of for attempt in range(max_retries + 1): func() is invoked;
\* its result is returned, or its error is tested and either re-raised
\* or followed by a sleep.  When the range is used up the function ends
\* without a return statement.
RetryAttempt ==
    /\ retry.pc = "loop"
    /\ IF retry.attempt > retry.max_retries
       THEN retry' = [retry EXCEPT !.pc = "returned", !.result = "None"]
       ELSE IF retry.calls >= Len(retry.script)
       THEN retry' = [retry EXCEPT !.pc = "returned", !.result = "ok",
                                   !.calls = @ + 1]
       ELSE LET e == retry.script[retry.calls + 1]
            IN  IF RateLimited[e] /\ RetriesRemain(retry.attempt, retry.max_retries)
                THEN retry' = [retry EXCEPT !.pc = "sleep", !.calls = @ + 1]
                ELSE retry' = [retry EXCEPT !.pc = "raised", !.result = e,
                                            !.calls = @ + 1]
    /\ UNCHANGED <<store, threads, gate, now, leaves, conn>>

\* time.sleep(delay); continue
RetrySleep ==
    /\ retry.pc = "sleep"
    /\ retry' = [retry EXCEPT
                    !.pc = "loop",
                    !.sleeps = Append(@, Delay(retry.base_delay, retry.attempt)),
                    !.attempt = @ + 1]
    /\ UNCHANGED <<store, threads, gate, now, leaves, conn>>

NextRetry == RetryCall \/ RetryAttempt \/ RetrySleep

\* Calls of retry_on_rate_limit, each run to its end.
SpecRetry == Init /\ [][NextRetry]_vars

\* The same, with a call that can take its next step taking it.
SpecRetryFair == SpecRetry /\ WF_vars(RetryAttempt) /\ WF_vars(RetrySleep)

\* ---- Threads: calls that overlap ----

\* The call of thread t, changed in the given fields.
InCall(t, pc, records, ok) ==
    [threads EXCEPT ![t].pc = pc, ![t].records = records, ![t].ok = ok]

\* A thread enters add_item(item).
CallAddItem(t) ==
    \E item \in ItemInputs :
        /\ threads[t].pc = "idle"
        /\ threads' = [threads EXCEPT ![t] = [IdleThread EXCEPT
                           !.pc = "read", !.op = "add_item", !.arg = <<item>>]]
        /\ UNCHANGED <<items, routines, worksheets, charts, active, ret,
                       cellBefore, allocated, trusted, gate, now, leaves, retry, conn>>

\* add_item reads the Items sheet into its local records.
AddItemRead(t) ==
    /\ threads[t].pc = "read"
    /\ threads[t].op = "add_item"
    /\ threads' = InCall(t, "write", SheetToRecords("Items", items, FALSE), FALSE)
    /\ UNCHANGED <<items, routines, worksheets, charts, active, ret,
                   cellBefore, allocated, trusted, gate, now, leaves, retry, conn>>

\* add_item that reads the sheet again when it saves.
AddItemGridReread(grid, records, item) ==
    LET fresh == SheetToRecords("Items", grid, FALSE)
    IN  RecordsToSheet("Items", grid, Append(fresh, NewItem(fresh, item)), FALSE)

\* The grid add_item writes from its local records, whatever the sheet
\* holds by now.
AddItemGrid(grid, records, item) ==
    RecordsToSheet("Items", grid, Append(records, NewItem(records, item)), FALSE)

\* add_item computes the new record from its local records and writes
\* them all back.
AddItemWrite(t) ==
    LET records == threads[t].records
        parses == AllNum(records, "A") /\ AllNum(records, "G")
    IN  /\ threads[t].pc = "write"
        /\ threads[t].op = "add_item"
        /\ items' = IF parses
                     THEN AddItemGrid(items, records, threads[t].arg[1])
                     ELSE items
        /\ threads' = InCall(t, "done", records, parses)
        /\ UNCHANGED <<routines, worksheets, charts, active, ret,
                       cellBefore, allocated, trusted, gate, now, leaves, retry, conn>>

\* The ID lists of the overlapping batch deletes: one stored chart each.
ThreadLists == {<<"1">>, <<"2">>}

\* A thread enters batch_delete_chord_charts(chord_ids) with a list that
\* is not empty, and comes to the throttle.
CallBatchDelete(t) ==
    \E chord_ids \in ThreadLists :
        /\ threads[t].pc = "idle"
        /\ threads' = [threads EXCEPT ![t] = [IdleThread EXCEPT
                           !.pc = "throttle", !.op = "batch_delete_chord_charts",
                           !.arg = chord_ids]]
        /\ UNCHANGED <<items, routines, worksheets, charts, active, ret,
                       cellBefore, allocated, trusted, gate, now, leaves, retry, conn>>

\* with _batch_operation_lock: the thread takes the free lock, reads the
\* clock and decides whether to sleep.
ThrottleEnter(t) ==
    /\ threads[t].pc = "throttle"
    /\ gate.lock = 0
    /\ gate' = [gate EXCEPT !.lock = t]
    /\ threads' = [threads EXCEPT
                      ![t].current_time = now,
                      ![t].pc = IF now - gate.last < MinInterval
                                THEN "sleep" ELSE "stamp"]
    /\ UNCHANGED <<items, routines, worksheets, charts, active, ret,
                   cellBefore, allocated, trusted, now, leaves, retry, conn>>

\* A sleep one tick shorter than what is left of the interval.
SleepTimeShort(time_since_last) == MinInterval - time_since_last - 1

\* sleep_time = min_interval - time_since_last
SleepTime(time_since_last) == MinInterval - time_since_last

\* time.sleep(sleep_time), holding the lock.
ThrottleSleep(t) ==
    LET time_since_last == threads[t].current_time - gate.last
        sleep_time == SleepTime(time_since_last)
    IN  /\ threads[t].pc = "sleep"
        /\ now + sleep_time <= MaxTime
        /\ now' = now + sleep_time
        /\ threads' = [threads EXCEPT ![t].pc = "stamp"]
        /\ UNCHANGED <<items, routines, worksheets, charts, active, ret,
                       cellBefore, allocated, trusted, gate, leaves, retry, conn>>

\* _last_batch_operation_time = time.time()
ThrottleStamp(t) ==
    /\ threads[t].pc = "stamp"
    /\ gate' = [gate EXCEPT !.last = now]
    /\ threads' = [threads EXCEPT ![t].pc = "release"]
    /\ UNCHANGED <<items, routines, worksheets, charts, active, ret,
                   cellBefore, allocated, trusted, now, leaves, retry, conn>>

\* The with block ends: the lock is released and the caller leaves the
\* throttle.  leaves keeps the last two instants of leaving.
ThrottleLeave(t) ==
    /\ threads[t].pc = "release"
    /\ gate' = [gate EXCEPT !.lock = 0]
    /\ leaves' = IF leaves = <<>> THEN <<now>> ELSE <<leaves[Len(leaves)], now>>
    /\ threads' = [threads EXCEPT ![t].pc = "read"]
    /\ UNCHANGED <<items, routines, worksheets, charts, active, ret,
                   cellBefore, allocated, trusted, now, retry, conn>>

\* do_batch_delete reads the ChordCharts sheet into its local records.
BatchDeleteRead(t) ==
    /\ threads[t].pc = "read"
    /\ threads[t].op = "batch_delete_chord_charts"
    /\ threads' = InCall(t, "write", SheetToRecords("ChordCharts", charts, FALSE), FALSE)
    /\ UNCHANGED <<items, routines, worksheets, charts, active, ret,
                   cellBefore, allocated, trusted, gate, now, leaves, retry, conn>>

\* Whether the orders batch_delete_chord_charts converts all parse.
BatchParses(records, chord_ids) ==
    LET found == FoundIds(records, chord_ids)
        affected == {FirstWithId(records, found[i])["B"] : i \in DOMAIN found}
    IN  /\ \A i \in DOMAIN found : IsNum(FirstWithId(records, found[i])["F"])
        /\ \A r \in DOMAIN records :
               (records[r]["B"] \in affected
                  /\ records[r]["A"] \notin {found[i] : i \in DOMAIN found})
               => IsNum(records[r]["F"])

\* do_batch_save writes the local records without the requested charts,
\* whatever the sheet holds by now.
BatchDeleteWrite(t) ==
    LET records == threads[t].records
        parses == BatchParses(records, threads[t].arg)
    IN  /\ threads[t].pc = "write"
        /\ threads[t].op = "batch_delete_chord_charts"
        /\ charts' = IF parses
                      THEN RecordsToSheet("ChordCharts", charts,
                               BatchDeleteRecords(records, threads[t].arg), FALSE)
                      ELSE charts
        /\ threads' = InCall(t, "done", records, parses)
        /\ UNCHANGED <<items, routines, worksheets, active, ret,
                       cellBefore, allocated, trusted, gate, now, leaves, retry, conn>>

\* Time passes.
Tick ==
    /\ now < MaxTime
    /\ now' = now + 1
    /\ UNCHANGED <<items, routines, worksheets, charts, active, ret,
                   cellBefore, allocated, trusted, threads, gate, leaves, retry, conn>>

\* Two chord charts of one item are stored before the threads start.
InitThreads ==
    /\ InitProcs
    /\ items = <<>>
    /\ routines = <<>>
    /\ worksheets = <<>>
    /\ charts = AddChordChartOp(AddChordChartOp(<<>>, "1", [title |-> "Am"]).grid,
                                 "1", [title |-> "Am"]).grid
    /\ active = ""
    /\ ret = Ret("none", <<>>, TRUE)
    /\ cellBefore = ""
    /\ allocated = [s \in {"Items", "Routines", "ChordCharts", "Routine"} |->
                       IF s = "ChordCharts" THEN 2 ELSE 0]
    /\ trusted = TRUE

\* Overlapping add_item and batch_delete_chord_charts calls, one for each
\* thread.  The clock moves while a caller sleeps in the throttle.
NextThreads ==
    \E t \in Threads :
          \/ CallAddItem(t)
          \/ AddItemRead(t)
          \/ AddItemWrite(t)
          \/ CallBatchDelete(t)
          \/ ThrottleEnter(t)
          \/ ThrottleSleep(t)
          \/ ThrottleStamp(t)
          \/ ThrottleLeave(t)
          \/ BatchDeleteRead(t)
          \/ BatchDeleteWrite(t)

SpecThreads == InitThreads /\ [][NextThreads]_vars

\* ---- get_spread and its caches ----

\* A thread calls get_spread().
GetSpreadCall(t) ==
    /\ threads[t].pc = "idle"
    /\ conn.count < MaxOpens
    /\ threads' = [threads EXCEPT ![t] = [IdleThread EXCEPT
                       !.pc = "lookup", !.op = "get_spread"]]
    /\ UNCHANGED <<store, gate, now, leaves, retry, conn>>

\* lru_cache looks the call up: a cached handle is returned, otherwise
\* the function body runs.
GetSpreadLookup(t) ==
    /\ threads[t].pc = "lookup"
    /\ threads[t].op = "get_spread"
    /\ IF conn.spread # 0
       THEN /\ threads' = [threads EXCEPT ![t].pc = "done", ![t].ok = TRUE,
                                          ![t].spread = conn.spread]
            /\ conn' = [conn EXCEPT !.returned = @ \cup {conn.spread}]
       ELSE /\ threads' = [threads EXCEPT ![t].pc = "credentials"]
            /\ UNCHANGED conn
    /\ UNCHANGED <<store, gate, now, leaves, retry>>

\* creds, _ = get_credentials(): the cached pair, or the one read from
\* token.json, which is cached whether it holds a credential or not;
\* without a credential get_spread raises ValueError.
GetSpreadCredentials(t) ==
    LET creds == IF conn.creds # "" THEN conn.creds ELSE conn.token
    IN  /\ threads[t].pc = "credentials"
        /\ threads[t].op = "get_spread"
        /\ conn' = [conn EXCEPT !.creds = creds]
        /\ threads' = IF creds = "none"
                       THEN [threads EXCEPT ![t].pc = "done", ![t].ok = FALSE,
                                            ![t].error = "No valid credentials available"]
                       ELSE [threads EXCEPT ![t].pc = "open"]
        /\ UNCHANGED <<store, gate, now, leaves, retry>>

\* client.open_by_key(spread_id) opens a connection: a new handle.
GetSpreadOpen(t) ==
    /\ threads[t].pc = "open"
    /\ threads[t].op = "get_spread"
    /\ conn' = [conn EXCEPT !.count = @ + 1, !.opened = @ \cup {conn.count + 1}]
    /\ threads' = [threads EXCEPT ![t].pc = "store", ![t].spread = conn.count + 1]
    /\ UNCHANGED <<store, gate, now, leaves, retry>>

\* Opening the connection raises: ValueError, nothing is cached.
GetSpreadOpenFails(t) ==
    /\ threads[t].pc = "open"
    /\ threads[t].op = "get_spread"
    /\ threads' = [threads EXCEPT ![t].pc = "done", ![t].ok = FALSE,
                                  ![t].error = "Failed to connect to spreadsheet"]
    /\ UNCHANGED <<store, gate, now, leaves, retry, conn>>

\* lru_cache stores the result, unless the key was stored while the
\* function ran, and returns the result of this call.
GetSpreadStore(t) ==
    /\ threads[t].pc = "store"
    /\ threads[t].op = "get_spread"
    /\ conn' = [conn EXCEPT !.spread = IF @ = 0 THEN threads[t].spread ELSE @,
                            !.returned = @ \cup {threads[t].spread}]
    /\ threads' = [threads EXCEPT ![t].pc = "done", ![t].ok = TRUE]
    /\ UNCHANGED <<store, gate, now, leaves, retry>>

\* The caller goes on; the thread is free for another call.
GetSpreadReturn(t) ==
    /\ threads[t].pc = "done"
    /\ threads[t].op = "get_spread"
    /\ threads' = [threads EXCEPT ![t] = IdleThread]
    /\ UNCHANGED <<store, gate, now, leaves, retry, conn>>

\* invalidate_caches(): both caches are cleared.
InvalidateCaches ==
    /\ conn' = [conn EXCEPT !.creds = "", !.spread = 0,
                            !.opened = {}, !.returned = {}]
    /\ UNCHANGED <<store, threads, gate, now, leaves, retry>>

\* The steps of get_spread in thread t.
GetSpreadStep(t) ==
    \/ GetSpreadLookup(t)
    \/ GetSpreadCredentials(t)
    \/ GetSpreadOpen(t)
    \/ GetSpreadOpenFails(t)
    \/ GetSpreadStore(t)
    \/ GetSpreadReturn(t)

NextConn ==
    \/ InvalidateCaches
    \/ \E t \in Threads : GetSpreadCall(t) \/ GetSpreadStep(t)

\* An empty spreadsheet, cold caches, and a token file that holds a valid
\* credential or none.
InitConn ==
    /\ conn \in {[ColdCaches EXCEPT !.token = k] : k \in {"valid", "none"}}
    /\ threads = [t \in Threads |-> IdleThread]
    /\ gate = [last |-> 0, lock |-> 0]
    /\ now = MinInterval
    /\ leaves = <<>>
    /\ retry = IdleRetry
    /\ items = <<>>
    /\ routines = <<>>
    /\ worksheets = <<>>
    /\ charts = <<>>
    /\ active = ""
    /\ ret = Ret("none", <<>>, TRUE)
    /\ cellBefore = ""
    /\ allocated = [s \in {"Items", "Routines", "ChordCharts", "Routine"} |-> 0]
    /\ trusted = TRUE

\* get_spread called from the threads of the server, at any time, with
\* invalidate_caches called between and during the calls.
SpecConn == InitConn /\ [][NextConn]_vars

\* No other thread is in a call.
OthersIdle(t) == \A u \in Threads \ {t} : threads[u].pc = "idle"

NextConnSerial ==
    \/ (\A t \in Threads : threads[t].pc = "idle") /\ InvalidateCaches
    \/ \E t \in Threads : OthersIdle(t) /\ (GetSpreadCall(t) \/ GetSpreadStep(t))

\* The same with the calls one after the other.
SpecConnSerial == InitConn /\ [][NextConnSerial]_vars

\* ---- The routes' own records_to_sheet: a clear, then a write ----

\* worksheet.batch_clear(['A2:<col_end>']): the first n columns of every
\* data row are emptied.
WsBatchClear(grid, n) ==
    TrimRows([i \in 1..Len(grid) |->
                TrimCells([k \in 1..Len(grid[i]) |->
                             IF k <= n THEN "" ELSE grid[i][k]])])

\* The column count of records_to_sheet in routes.py.
RouteNumCols(is_routine_worksheet) == IF is_routine_worksheet THEN 4 ELSE 8

\* records_to_sheet of routes.py, its first remote call: the data region
\* is cleared.
RouteSheetCleared(grid, is_routine_worksheet) ==
    WsBatchClear(grid, RouteNumCols(is_routine_worksheet))

\* records_to_sheet of routes.py, its second remote call: the rows of the
\* records are written to A2:<col_end><len(rows) + 1>.
RouteSheetWritten(grid, records, is_routine_worksheet) ==
    LET rows == RecordRows(records, RouteNumCols(is_routine_worksheet))
    IN  WsUpdate(grid, rows, Len(rows))

\* The payloads of the overlapping reorder requests: the two entries
\* swapped, and the first entry alone.
RoutePayloads == {<<[A |-> "1", C |-> "1"], [A |-> "2", C |-> "0"]>>,
                  <<[A |-> "1", C |-> "0"]>>}

\* A thread enters the route PUT /api/routines/<routine_id>/order.
CallRouteOrder(t) ==
    \E payload \in RoutePayloads :
        /\ threads[t].pc = "idle"
        /\ threads' = [threads EXCEPT ![t] = [IdleThread EXCEPT
                           !.pc = "read", !.op = "routine_order",
                           !.arg = <<payload>>]]
        /\ UNCHANGED <<items, routines, worksheets, charts, active, ret,
                       cellBefore, allocated, trusted, gate, now, leaves, retry, conn>>

\* The route reads the routine's entries and gives them the orders of the
\* payload; records_to_sheet returns True at once when there are none.
RouteOrderRead(t) ==
    LET existing_items == SheetToRecords(TheRoutine, worksheets[TheRoutine], TRUE)
        records == ReorderedRoutine(existing_items, threads[t].arg[1])
    IN  /\ threads[t].pc = "read"
        /\ threads[t].op = "routine_order"
        /\ threads' = IF records = <<>>
                       THEN InCall(t, "done", records, TRUE)
                       ELSE InCall(t, "clear", records, FALSE)
        /\ UNCHANGED <<items, routines, worksheets, charts, active, ret,
                       cellBefore, allocated, trusted, gate, now, leaves, retry, conn>>

\* records_to_sheet clears the data region.
RouteOrderClear(t) ==
    /\ threads[t].pc = "clear"
    /\ threads[t].op = "routine_order"
    /\ worksheets' = [worksheets EXCEPT
                         ![TheRoutine] = RouteSheetCleared(@, TRUE)]
    /\ threads' = InCall(t, "update", threads[t].records, FALSE)
    /\ UNCHANGED <<items, routines, charts, active, ret,
                   cellBefore, allocated, trusted, gate, now, leaves, retry, conn>>

\* records_to_sheet writes the rows.
RouteOrderUpdate(t) ==
    /\ threads[t].pc = "update"
    /\ threads[t].op = "routine_order"
    /\ worksheets' = [worksheets EXCEPT
                         ![TheRoutine] = RouteSheetWritten(@, threads[t].records, TRUE)]
    /\ threads' = InCall(t, "done", threads[t].records, TRUE)
    /\ UNCHANGED <<items, routines, charts, active, ret,
                   cellBefore, allocated, trusted, gate, now, leaves, retry, conn>>

\* The remote write raises: the route answers 500 and the rows are not
\* written.
RouteOrderUpdateFails(t) ==
    /\ threads[t].pc = "update"
    /\ threads[t].op = "routine_order"
    /\ threads' = InCall(t, "done", threads[t].records, FALSE)
    /\ UNCHANGED <<items, routines, worksheets, charts, active, ret,
                   cellBefore, allocated, trusted, gate, now, leaves, retry, conn>>

\* The routine holds two entries before the requests start.
InitRouteWrites ==
    /\ InitProcs
    /\ items = <<>>
    /\ routines = <<<<"1", "Warmup", "2025-01-01 09:00AM PST", "0">>>>
    /\ worksheets = AddToRoutineOp(
                        AddToRoutineOp([t \in {TheRoutine} |-> <<>>],
                                       TheRoutine, "1").sheets,
                        TheRoutine, "1").sheets
    /\ charts = <<>>
    /\ active = ""
    /\ ret = Ret("none", <<>>, TRUE)
    /\ cellBefore = ""
    /\ allocated = [s \in {"Items", "Routines", "ChordCharts", "Routine"} |->
                      IF s = "Routines" THEN 1 ELSE IF s = "Routine" THEN 2 ELSE 0]
    /\ trusted = TRUE

NextRouteWrites ==
    \E t \in Threads :
          \/ CallRouteOrder(t)
          \/ RouteOrderRead(t)
          \/ RouteOrderClear(t)
          \/ RouteOrderUpdate(t)
          \/ RouteOrderUpdateFails(t)

\* Overlapping reorder requests, each writing the routine's worksheet
\* through the records_to_sheet of routes.py.
SpecRouteWrites == InitRouteWrites /\ [][NextRouteWrites]_vars

\* The throttle alone, with the clock running freely: the callers come to
\* the throttle at any time; what they read and write after leaving it
\* does not touch the throttle and is left out.
NextThrottle ==
    \/ Tick
    \/ \E t \in Threads :
          \/ CallBatchDelete(t)
          \/ ThrottleEnter(t)
          \/ ThrottleSleep(t)
          \/ ThrottleStamp(t)
          \/ ThrottleLeave(t)

SpecThrottle == InitThreads /\ [][NextThrottle]_vars

SpecCodec == InitRoutine /\ [][WriteRecords]_vars

(***************************************************************************)
(* Readers and predicates the properties are stated with.                  *)
(***************************************************************************)
\* The records of the Items sheet as a reader gets them.
ItemRecords == SheetToRecords("Items", items, FALSE)

\* The entries of the routine worksheet, none when it does not exist.
EntryRecords ==
    IF TheRoutine \in DOMAIN worksheets THEN RoutineRecords(TheRoutine) ELSE <<>>

\* Whether the cells of column col are the text of 0 .. m-1, each once.
Dense(records, col) ==
    /\ AllNum(records, col)
    /\ {ToInt(records[r][col]) : r \in DOMAIN records} = 0..(Len(records) - 1)

\* Whether a record of the list has the ID.
HasId(records, id) == \E r \in DOMAIN records : records[r]["A"] = id

\* Whether no two records share the text of column A.
UniqueIds(records) ==
    \A r, q \in DOMAIN records : r # q => records[r]["A"] # records[q]["A"]

\* Whether the index rows and the routine worksheets name the same IDs.
Paired ==
    {RoutineIndex[r]["A"] : r \in DOMAIN RoutineIndex} = DOMAIN worksheets

\* The add operation of each sheet that allocates IDs.
AddOp == [Items |-> "add_item", Routines |-> "create_routine",
          ChordCharts |-> "add_chord_chart", Routine |-> "add_to_routine"]

RoutineDense == Dense(RoutineRecords(TheRoutine), "C")

\* C2, with the payloads restricted: when every update_routine_order
\* payload named each entry once and handed out the orders 0 .. m-1, the
\* orders of the routine's entries are 0 .. m-1, each once.
RoutineDenseIfTrusted == trusted => RoutineDense

\* The first of three entries removed, after well-formed payloads only.
EntryRemovedFromFullRoutine ==
    /\ trusted
    /\ ret = Ret("remove_from_routine", <<"1">>, TRUE)
    /\ Len(RoutineRecords(TheRoutine)) = 2

\* Whether the charts of every item have the orders 0 .. m-1, each once.
ChartsDense ==
    \A item_id \in ChartItems : Dense(ItemCharts(ChartRecords, item_id), "F")

\* C3: after any sequence of add_chord_chart, delete_chord_chart,
\* batch_delete_chord_charts and update_chord_charts_order calls, the
\* reorder payloads naming each chart of their item once, the orders of
\* the charts of every item are 0 .. m-1, each once.
ChartsDenseIfTrusted == trusted => ChartsDense

(***************************************************************************)
(* Record IDs (C4, C5, C6).                                                *)
(***************************************************************************)
\* C4: the ID an add operation gives a new record is greater than every
\* ID the adds of that sheet gave out before, deleted records included.
NeverReused ==
    [][\A s \in DOMAIN AddOp :
          (ret'.op = AddOp[s] /\ ret'.ok) => ToInt(ret'.ids[1]) > allocated[s]]_vars

DeleteRemovesRecord ==
    [][/\ (ret'.op = "delete_item" /\ ret'.ok /\ HasId(ItemRecords, ret'.ids[1]))
          => /\ ~HasId(ItemRecords', ret'.ids[1])
             /\ Len(ItemRecords') = Len(ItemRecords) - 1
       /\ (ret'.op = "remove_from_routine" /\ ret'.ok
             /\ HasId(EntryRecords, ret'.ids[1]))
          => /\ ~HasId(EntryRecords', ret'.ids[1])
             /\ Len(EntryRecords') = Len(EntryRecords) - 1
       /\ (ret'.op = "delete_chord_chart" /\ ret'.ok
             /\ HasId(ChartRecords, ret'.ids[1]))
          => /\ ~HasId(ChartRecords', ret'.ids[1])
             /\ Len(ChartRecords') = Len(ChartRecords) - 1
       /\ (ret'.op = "batch_delete_chord_charts" /\ ret'.ok)
          => /\ \A i \in DOMAIN ret'.ids : ~HasId(ChartRecords', ret'.ids[i])
             /\ Len(ChartRecords') = Len(ChartRecords)
                   - Cardinality({ret'.ids[i] : i \in DOMAIN ret'.ids})]_vars

(***************************************************************************)
(* The codec (C7, C8).                                                     *)
(***************************************************************************)
\* C7: after records_to_sheet(worksheet, R) returned success on a
\* worksheet holding the rows of P, with len(P) >= len(R), the worksheet
\* reads back as the records of R in order, len(R) = 0 included: no row of
\* P is left.
FullOverwrite ==
    [][\A title \in CodecTitles :
          (/\ ret'.op = "records_to_sheet"
           /\ ret'.ok
           /\ ret'.ids[1] = title
           /\ Len(ReadBack(title)) >= Len(ret'.ids[2]))
          => /\ Len(ReadBack(title)') = Len(ret'.ids[2])
             /\ \A r \in DOMAIN ret'.ids[2] :
                   ReadBack(title)'[r] = Padded(title, ret'.ids[2][r])]_vars

\* C8: for each worksheet kind, the records written by records_to_sheet
\* and read back by sheet_to_records are the records written, a key a
\* record lacks read back as the empty string.
RoundTrip ==
    ret.op = "records_to_sheet" =>
        ReadBack(ret.ids[1]) =
            [r \in DOMAIN ret.ids[2] |-> Padded(ret.ids[1], ret.ids[2][r])]

(***************************************************************************)
(* Routines (C9, C10).                                                     *)
(***************************************************************************)
\* C9: create_routine and delete_routine calls that report success keep
\* the IDs of the Routines index equal to the titles of the routine
\* worksheets.
PairingKept ==
    [][(/\ Paired
        /\ ret'.op \in {"create_routine", "delete_routine"}
        /\ ret'.ok)
       => Paired']_vars

AllRoutines == GetAllRoutines(GetActiveRoutine(active), routines)

RetryEnded == retry.pc \in {"returned", "raised"}

\* Whether the first n invocations of the wrapped operation raise an
\* error the function takes for a rate limit.
RateLimitedFirst(n) ==
    /\ Len(retry.script) >= n
    /\ \A i \in 1..n : RateLimited[retry.script[i]]

\* C13: when the wrapped operation raises a rate-limit error on each of
\* its first max_retries invocations and succeeds on the next, every retry
\* comes after its sleep, and the call ends by returning the operation's
\* result after max_retries + 1 invocations, having slept
\* base_delay * 2^i before retry i, each delay double the one before.
RetryBoundary ==
    (retry.pc # "idle" /\ Len(retry.script) = retry.max_retries
        /\ RateLimitedFirst(retry.max_retries))
    => /\ Len(retry.sleeps) \in {retry.calls - 1, retry.calls}
       /\ RetryEnded
          => /\ retry.pc = "returned"
             /\ retry.result = "ok"
             /\ retry.calls = retry.max_retries + 1
             /\ Len(retry.sleeps) = retry.max_retries
             /\ \A i \in 0..(retry.max_retries - 1) :
                    retry.sleeps[i + 1] = retry.base_delay * (2 ^ i)
             /\ \A i \in 2..retry.max_retries :
                    retry.sleeps[i] = 2 * retry.sleeps[i - 1]

\* C13: a call with max_retries 3 and base_delay 2 has returned the result
\* after three rate-limit errors and sleeps of 2, 4 and 8.
RetriedThenReturned ==
    /\ retry.pc = "returned"
    /\ retry.result = "ok"
    /\ retry.max_retries = 3
    /\ retry.base_delay = 2
    /\ Len(retry.script) = 3
    /\ RateLimitedFirst(3)
    /\ retry.calls = 4
    /\ retry.sleeps = <<2, 4, 8>>

\* C14: an error that is not a rate-limit error is re-raised at once: it
\* is the error of the last invocation, no sleep follows it, and when it
\* is the error of the first invocation there was one invocation and no
\* sleep.  When every invocation raises a rate-limit error, the error of
\* invocation max_retries + 1 is re-raised after max_retries sleeps.
\* Every call ends.
RetryFailure ==
    /\ [](RetryEnded =>
           /\ \A k \in 1..Len(retry.script) :
                  (~RateLimited[retry.script[k]]
                     /\ \A i \in 1..(k - 1) : RateLimited[retry.script[i]]
                     /\ k <= retry.max_retries + 1)
                  => /\ retry.pc = "raised"
                     /\ retry.result = retry.script[k]
                     /\ retry.calls = k
                     /\ Len(retry.sleeps) = k - 1
           /\ RateLimitedFirst(retry.max_retries + 1)
              => /\ retry.pc = "raised"
                 /\ retry.result = retry.script[retry.max_retries + 1]
                 /\ retry.calls = retry.max_retries + 1
                 /\ Len(retry.sleeps) = retry.max_retries)
    /\ (retry.pc # "idle") ~> RetryEnded

\* C14: a call with max_retries 2 has re-raised the rate-limit error of
\* the third invocation after two sleeps.
RetriesExhausted ==
    /\ retry.pc = "raised"
    /\ retry.max_retries = 2
    /\ RateLimitedFirst(3)
    /\ retry.result = retry.script[3]
    /\ retry.calls = 3
    /\ Len(retry.sleeps) = 2

\* The threads inside the with block of the throttle.
InsideGate == {t \in Threads : threads[t].pc \in {"sleep", "stamp", "release"}}

\* At most one thread is inside the throttle, and it holds the lock.
OneInsideGate ==
    /\ Cardinality(InsideGate) <= 1
    /\ \A t \in InsideGate : gate.lock = t

OthersOf(records, id) == SelectSeq(records, LAMBDA rec : rec["A"] # id)

\* The order of the first record that has the ID.
OrderOf(records, id) ==
    ToInt(records[CHOOSE r \in DOMAIN records :
                     /\ records[r]["A"] = id
                     /\ \A q \in 1..(r - 1) : records[q]["A"] # id]["G"])

\* The records with every order above k lowered by 1.
MovedUp(records, k) ==
    [r \in DOMAIN records |->
        IF ToInt(records[r]["G"]) > k
        THEN [records[r] EXCEPT !["G"] = Str(ToInt(records[r]["G"]) - 1)]
        ELSE records[r]]

\* C16: when delete_item deletes the item with order k, the other records
\* are stored afterwards in the sequence they had, each with its order
\* lowered by 1 if it was above k and kept otherwise, and with every
\* other field as it was.
DeleteCompacts ==
    [][(ret'.op = "delete_item" /\ ret'.ok)
       => OthersOf(ItemRecords', ret'.ids[1])
             = MovedUp(OthersOf(ItemRecords, ret'.ids[1]),
                       OrderOf(ItemRecords, ret'.ids[1]))]_vars

\* C16: the item with order 1 has been deleted from a sheet of three
\* items with orders 0, 1, 2; the item that had order 0 keeps it and the
\* item that had order 2 has order 1.
MiddleItemDeleted ==
    /\ ret = Ret("delete_item", <<"2">>, TRUE)
    /\ Len(ItemRecords) = 2
    /\ ItemRecords[1]["A"] = "1" /\ ItemRecords[1]["G"] = "0"
    /\ ItemRecords[2]["A"] = "3" /\ ItemRecords[2]["G"] = "1"

\* Whether, for every item, the charts of the second list are the charts
\* of the first list without the deleted ones, in their sequence and with
\* nothing but the order changed, the orders of an item that lost a chart
\* being 0 .. m-1 and rising as they rose before, and the charts of
\* every other item being as they were.
SurvivorsRenumbered(was, is, deleted) ==
    LET gone == {deleted[i] : i \in DOMAIN deleted}
        affected == {FirstWithId(was, cid)["B"] : cid \in gone}
    IN  \A item_id \in ChartItems :
            LET mine == ItemCharts(was, item_id)
                now_mine == ItemCharts(is, item_id)
                survivors == SelectSeq(mine, LAMBDA rec : rec["A"] \notin gone)
            IN  IF item_id \in affected
                THEN /\ Len(now_mine) = Len(survivors)
                     /\ Dense(now_mine, "F")
                     /\ \A r \in DOMAIN survivors :
                            now_mine[r] = [survivors[r] EXCEPT !["F"] = now_mine[r]["F"]]
                     /\ \A r, q \in DOMAIN survivors :
                            ToInt(survivors[r]["F"]) < ToInt(survivors[q]["F"])
                            => ToInt(now_mine[r]["F"]) < ToInt(now_mine[q]["F"])
                ELSE now_mine = mine

\* C17: when batch_delete_chord_charts succeeds on a sheet whose orders are
\* 0 .. m-1 for every item, with any list of chord IDs, the surviving
\* charts of every item that lost a chart have the orders 0 .. m-1 in
\* their previous relative order, and the charts of the other items are
\* unchanged.
BatchRenumbers ==
    [][(ret'.op = "batch_delete_chord_charts" /\ ret'.ok /\ ChartsDense)
       => SurvivorsRenumbered(ChartRecords, ChartRecords', ret'.ids)]_vars

RECURSIVE DeletedOneByOne(_, _)
\* The grid after delete_chord_chart has been called for each ID of the
\* list in turn.
DeletedOneByOne(grid, chord_ids) ==
    IF chord_ids = <<>> THEN grid
    ELSE DeletedOneByOne(DeleteChordChartOp(grid, Head(chord_ids)).grid, Tail(chord_ids))

\* Whether the list names only charts of the sheet, each once.
DistinctAndPresent(records, chord_ids) ==
    /\ \A i, j \in DOMAIN chord_ids : i # j => chord_ids[i] # chord_ids[j]
    /\ \A i \in DOMAIN chord_ids : HasId(records, chord_ids[i])

\* C18: on a sheet whose orders are 0 .. m-1 for every item, for every
\* list of distinct chord IDs that are all on the sheet,
\* batch_delete_chord_charts leaves the sheet holding the records it
\* would hold after delete_chord_chart had been called for each of the
\* IDs, in any order.
BatchEqualsSequential ==
    ChartsDense
    => \A chord_ids \in BatchLists :
          DistinctAndPresent(ChartRecords, chord_ids)
          => \A p \in Perms(Len(chord_ids)) :
                SheetToRecords("ChordCharts",
                               BatchDeleteChordChartsOp(charts, chord_ids).grid, FALSE)
                  = SheetToRecords("ChordCharts",
                       DeletedOneByOne(charts, [i \in DOMAIN p |-> chord_ids[p[i]]]),
                       FALSE)

\* Whether the list names the ID.
Listed(list, id) == \E i \in DOMAIN list : list[i] = id

\* C19: for every list of chord IDs, batch_delete_chord_charts returns a
\* result that names each requested ID in exactly one of deleted,
\* not_found and failed: an ID that is not on the sheet in not_found, an
\* ID in deleted is a chart that was on the sheet and is on it no longer,
\* and an ID in failed is a chart that is still on the sheet.
BatchManifest ==
    \A chord_ids \in BatchLists :
        LET res == BatchDeleteChordChartsOp(charts, chord_ids)
            left == SheetToRecords("ChordCharts", res.grid, FALSE)
        IN  \A i \in DOMAIN chord_ids :
               LET id == chord_ids[i]
               IN  /\ Cardinality({l \in {"deleted", "not_found", "failed"} :
                                      Listed(res[l], id)}) = 1
                   /\ ~HasId(ChartRecords, id) => Listed(res.not_found, id)
                   /\ Listed(res.deleted, id)
                      => HasId(ChartRecords, id) /\ ~HasId(left, id)
                   /\ Listed(res.failed, id)
                      => HasId(ChartRecords, id) /\ HasId(left, id)

\* Whether a stored item has the title, compared in lower case.
TitleTaken(title) ==
    \E r \in DOMAIN ItemRecords : Lower(ItemRecords[r]["C"]) = Lower(title)

\* C20: for every title, add_item stores the title unchanged when no
\* stored item has it, compared in lower case; otherwise it stores
\* "<title> (n)" for the smallest n >= 1 such that no stored item has
\* that title, and n is at most the number of stored items plus 1.
TitleResolved ==
    \A item \in TitledInputs :
        LET res == AddItemOp(items, item)
            stored == SheetToRecords("Items", res.grid, FALSE)
            new == CHOOSE rec \in {stored[r] : r \in DOMAIN stored} :
                      rec["A"] = res.id
        IN  res.ok
            => IF ~TitleTaken(item["C"])
               THEN new["C"] = item["C"]
               ELSE \E n \in 1..(Len(ItemRecords) + 1) :
                       /\ new["C"] = Suffixed(item["C"], n)
                       /\ ~TitleTaken(Suffixed(item["C"], n))
                       /\ \A k \in 1..(n - 1) : TitleTaken(Suffixed(item["C"], k))

\* C20: "Scales" has been added three times and is stored as "Scales",
\* "Scales (1)" and "Scales (2)".
ScalesAddedThrice ==
    /\ ret.op = "add_item" /\ ret.ok
    /\ Len(ItemRecords) = 3
    /\ ItemRecords[1]["C"] = "Scales"
    /\ ItemRecords[2]["C"] = "Scales (1)"
    /\ ItemRecords[3]["C"] = "Scales (2)"

\* C21: after any sequence of add_item and update_item calls no two
\* stored items have titles that are equal in lower case.
TitlesUnique ==
    \A r, q \in DOMAIN ItemRecords :
        r # q => Lower(ItemRecords[r]["C"]) # Lower(ItemRecords[q]["C"])

\* The numbers of the routine worksheets' titles.
TitleNumbers == {ToInt(t) : t \in {n \in DOMAIN worksheets : IsNumericTitle(n)}}

\* C22: the ID a successful create_routine chooses is greater than every
\* ID of the Routines index and every numeric worksheet title it found,
\* and is the title of no worksheet that existed, orphan worksheets
\* included.
RoutineIdFresh ==
    [][(ret'.op = "create_routine" /\ ret'.ok)
       => /\ \A r \in DOMAIN RoutineIndex :
                ToInt(ret'.ids[1]) > ToInt(RoutineIndex[r]["A"])
          /\ \A n \in TitleNumbers : ToInt(ret'.ids[1]) > n
          /\ ret'.ids[1] \notin DOMAIN worksheets]_vars

\* The requested name is the name of a routine of the index, in lower case.
NameTaken(routine_name) ==
    \E r \in DOMAIN RoutineIndex :
        Lower(RoutineIndex[r]["B"]) = Lower(routine_name)

\* C23: a create_routine whose name equals, in lower case, the name of a
\* routine of the index fails and changes neither the index nor the
\* worksheets.
DuplicateNameRefused ==
    [][\A routine_name \in RoutineNames :
          (/\ NameTaken(routine_name)
           /\ ret'.op = "create_routine"
           /\ \/ /\ routines' = CreateRoutineOp(routines, worksheets, routine_name).index
                  /\ worksheets' = CreateRoutineOp(routines, worksheets, routine_name).sheets
              \/ /\ routines' = CreateRoutineUnreadOp(routines, worksheets, routine_name).index
                  /\ worksheets' = CreateRoutineUnreadOp(routines, worksheets, routine_name).sheets)
          => /\ ~ret'.ok
             /\ routines' = routines
             /\ worksheets' = worksheets]_vars

\* The records after an update compared with those before it: the same
\* number of records, every record but the target's as it was, and every
\* column of the target as it was unless it is free to change.
Framed(before_, after_, idx, free) ==
    /\ Len(after_) = Len(before_)
    /\ \A r \in DOMAIN before_ :
          IF r = idx
          THEN \A col \in DOMAIN before_[r] :
                  col \notin free => after_[r][col] = before_[r][col]
          ELSE after_[r] = before_[r]

\* The fields of the map present in the record after the update.
Supplied(record, fields, kept) ==
    \A col \in (DOMAIN fields \cap DOMAIN record) \ kept : record[col] = fields[col]

\* update_item changes, of the target, the supplied columns other than A
\* and G, and nothing else.
UpdateItemFramed ==
    \A item_id \in 1..MaxId, item \in ItemUpdates :
        LET res == UpdateItemOp(items, Str(item_id), item)
            after_ == SheetToRecords("Items", res.grid, FALSE)
        IN  res.ok =>
              LET idx == FirstIndex(ItemRecords, Str(item_id))
              IN  /\ Framed(ItemRecords, after_, idx, DOMAIN item \ {"A", "G"})
                  /\ Supplied(after_[idx], item, {"A", "G"})

\* update_routine_item changes, of the target, the supplied columns other
\* than A and C, and nothing else.
UpdateRoutineItemFramed ==
    \A item_id \in 1..MaxId, item \in EntryUpdates :
        LET res == UpdateRoutineItemOp(worksheets, TheRoutine, Str(item_id), item)
            before_ == RoutineRecords(TheRoutine)
            after_ == SheetToRecords(TheRoutine, res.sheets[TheRoutine], TRUE)
        IN  res.ok =>
              LET idx == FirstIndex(before_, Str(item_id))
              IN  /\ Framed(before_, after_, idx, DOMAIN item \ {"A", "C"})
                  /\ Supplied(after_[idx], item, {"A", "C"})
                  /\ \A t \in DOMAIN worksheets \ {TheRoutine} :
                        res.sheets[t] = worksheets[t]

\* update_chord_chart changes, of the target, the title when one is
\* supplied and the supplied chord fields, and nothing else.
UpdateChordChartFramed ==
    \A chord_id \in 1..MaxId, chord_data \in ChartUpdates :
        LET res == UpdateChordChartOp(charts, Str(chord_id), chord_data)
            after_ == SheetToRecords("ChordCharts", res.grid, FALSE)
        IN  res.ok =>
              LET idx == FirstIndex(ChartRecords, Str(chord_id))
                  was == ParseChordJson(ChartRecords[idx]["D"])
                  is == ParseChordJson(after_[idx]["D"])
              IN  /\ Framed(ChartRecords, after_, idx,
                            {"D"} \cup (IF "title" \in DOMAIN chord_data
                                        THEN {"C"} ELSE {}))
                  /\ "title" \in DOMAIN chord_data => after_[idx]["C"] = chord_data["title"]
                  /\ DOMAIN is = DOMAIN was
                  /\ \A k \in DOMAIN was :
                        is[k] = IF k \in DOMAIN chord_data THEN chord_data[k] ELSE was[k]

ByIdOps == {"update_item", "update_routine_item", "update_chord_chart",
            "delete_item", "remove_from_routine", "delete_chord_chart"}

\* No record of the sheet the operation works on has the ID.
Absent(op, id) ==
    CASE op \in {"update_item", "delete_item"} ->
            \A r \in DOMAIN ItemRecords : ItemRecords[r]["A"] # id
      [] op \in {"update_routine_item", "remove_from_routine"} ->
            /\ TheRoutine \in DOMAIN worksheets
            /\ \A r \in DOMAIN RoutineRecords(TheRoutine) :
                  RoutineRecords(TheRoutine)[r]["A"] # id
      [] OTHER -> \A r \in DOMAIN ChartRecords : ChartRecords[r]["A"] # id

\* C25: an update or a single-record delete called with an ID that no
\* record has fails, writes nothing, and its failure reaches the caller as
\* an error.
AbsentIdReported ==
    [][(ret'.op \in ByIdOps /\ Absent(ret'.op, ret'.ids[1]))
       => /\ ~ret'.ok
          /\ items' = items /\ worksheets' = worksheets /\ charts' = charts
          /\ RouteStatus(ret'.op, AbsentOutcome(ret'.op)) >= 400]_vars

\* An update or a single-record delete called with an ID that no record
\* has fails and writes nothing.
AbsentIdNoWrite ==
    [][(ret'.op \in ByIdOps /\ Absent(ret'.op, ret'.ids[1]))
       => /\ ~ret'.ok
          /\ items' = items /\ worksheets' = worksheets /\ charts' = charts]_vars

\* C26: after any sequence of add_item, delete_item, add_to_routine and
\* remove_from_routine every routine entry's item ID is empty or the ID
\* of a stored item.
RefsIntact ==
    \A t \in DOMAIN worksheets :
        \A r \in DOMAIN RoutineRecords(t) :
            \/ RoutineRecords(t)[r]["B"] = ""
            \/ \E q \in DOMAIN ItemRecords :
                  ItemRecords[q]["A"] = RoutineRecords(t)[r]["B"]

\* C27: a failed remote read reaches the caller as an error: when the
\* read of a Routines index that holds routines fails inside
\* get_all_routine_records, create_routine does not take the index for
\* empty and succeed.
FailedReadReported ==
    [][(RoutineIndex # <<>> /\ CreateRoutineUnread) => ~ret'.ok]_vars

\* C28: a full-sheet write is one remote write: in no state has a write
\* cleared the data region of the worksheet without having written its
\* records.
NeverClearedUnwritten ==
    \A t \in Threads :
        (threads[t].op = "routine_order" /\ threads[t].records # <<>>
         /\ threads[t].pc \in {"update", "done"} /\ ~threads[t].ok)
        => RoutineRecords(TheRoutine) # <<>>

\* C29: between two invalidate_caches calls the successful get_spread
\* calls open the connection at most once and return the same handle, and
\* a get_spread that finds no valid credential fails with the credential
\* error.
OneConnection ==
    /\ Cardinality(conn.opened) <= 1
    /\ Cardinality(conn.returned) <= 1
    /\ \A t \in Threads :
          (threads[t].op = "get_spread" /\ threads[t].pc = "done"
           /\ conn.token = "none")
          => /\ ~threads[t].ok
             /\ threads[t].error = "No valid credentials available"

\* C30: retry_on_rate_limit takes an error for transient, and retries it,
\* exactly when its message contains, in lower case, one of the five
\* phrases retry_with_backoff looks for: with retries left it raises only
\* errors without such a phrase, and sleeps only after errors with one.
TransientRetried ==
    /\ (retry.pc = "raised" /\ retry.attempt < retry.max_retries)
       => ~BackoffRateLimited[retry.result]
    /\ retry.pc = "sleep" => BackoffRateLimited[retry.script[retry.calls]]

\* C31: set_routine_active(id, False) reports success, clears the cell
\* when the cell held exactly id, and leaves the cell as it was when it
\* was empty or held the ID of another routine.
DeactivationNoOp ==
    (ret.op = "set_routine_active" /\ ret.ids[2] = "False")
    => /\ ret.ok
       /\ active = IF cellBefore = ret.ids[1] THEN "" ELSE cellBefore

\* C31: routine 2 has been deactivated while routine 1 was active, and
\* routine 1 still is.
OtherRoutineDeactivated ==
    /\ ret = Ret("set_routine_active", <<"2", "False">>, TRUE)
    /\ cellBefore = "1"
    /\ active = "1"

\* The numeric Order of the entry of records whose ID is id.
EntryOrder(records, id) ==
    ToInt(records[CHOOSE r \in DOMAIN records : records[r]["A"] = id]["C"])

\* Whether the entries carry the orders 0..n-1, each once.
OrdersArePermutation(records) ==
    /\ \A r \in DOMAIN records : IsNum(records[r]["C"])
    /\ \A r, q \in DOMAIN records :
          records[r]["C"] = records[q]["C"] => r = q
    /\ {ToInt(records[r]["C"]) : r \in DOMAIN records} = 0..(Len(records) - 1)

\* What a successful remove_from_routine of entry gone did to the Order
\* of the entries it left.
RemovalKeepsOrder(before, after, gone) ==
    \A r \in DOMAIN after :
        LET id == after[r]["A"]
        IN  id # gone
            => /\ IsNum(after[r]["C"])
               /\ EntryOrder(after, id) =
                     IF EntryOrder(before, id) < EntryOrder(before, gone)
                     THEN EntryOrder(before, id)
                     ELSE EntryOrder(before, id) - 1

\* C32: remove_from_routine preserves the user's ordering: on a routine
\* whose orders 0..n-1 were set by update_routine_order, a successful
\* removal keeps the Order of every entry below the removed one and
\* lowers the Order of every entry above it by exactly 1, so the remaining
\* entries keep their relative order.
RemovePreservesOrdering ==
    [][(/\ RemoveFromRoutine
        /\ ret'.ok
        /\ OrdersArePermutation(RoutineRecords(TheRoutine)))
       => RemovalKeepsOrder(RoutineRecords(TheRoutine),
                            SheetToRecords(TheRoutine, worksheets'[TheRoutine], TRUE),
                            ret'.ids[1])]_vars

\* A record without its order column.
SansOrder(record, col) == [c \in DOMAIN record \ {col} |-> record[c]]

\* Whether two readings of a sheet hold the same records in the same
\* number, up to the order column.
OnlyOrderChanged(before, after, col) ==
    /\ Len(after) = Len(before)
    /\ {SansOrder(after[r], col) : r \in DOMAIN after}
          = {SansOrder(before[r], col) : r \in DOMAIN before}

\* C33: a reorder changes only Order: for any payload, update_items_order
\* leaves the stored item IDs and every field of every stored item other
\* than its order as they were; no item is added, removed or rewritten.
ReorderChangesOnlyOrder ==
    [][UpdateItemsOrder
       => OnlyOrderChanged(ItemRecords,
                           SheetToRecords("Items", items', FALSE), "G")]_vars

\* The same frame for update_routine_order on the routine worksheet.
RoutineReorderChangesOnlyOrder ==
    [][UpdateRoutineOrder
       => OnlyOrderChanged(RoutineRecords(TheRoutine),
                           SheetToRecords(TheRoutine, worksheets'[TheRoutine], TRUE),
                           "C")]_vars

\* The same frame for update_chord_charts_order on the ChordCharts sheet.
ChartReorderChangesOnlyOrder ==
    [][UpdateChordChartsOrder
       => OnlyOrderChanged(ChartRecords,
                           SheetToRecords("ChordCharts", charts', FALSE), "F")]_vars

(***************************************************************************)
(* The route PUT /api/routines/order: do_update, wrapped whole in          *)
(* retry_on_rate_limit, reads the Routines index, gives the routines the   *)
(* orders of the payload and writes them with the records_to_sheet of      *)
(* routes.py.                                                              *)
(***************************************************************************)
\* retry_on_rate_limit(do_update, max_retries=3, base_delay=2)
RoutinesOrderMaxRetries == 3

RoutinesOrderBaseDelay == 2

\* The thread that serves the request.
Handler == 1

\* The payloads of the request: the two routines swapped, the first
\* routine alone, an ID the index does not hold.
RoutinesPayloads == {<<[A |-> "1", D |-> "1"], [A |-> "2", D |-> "0"]>>,
                     <<[A |-> "1", D |-> "1"]>>,
                     <<[A |-> "9", D |-> "0"]>>}

\* order_map[id] for an ID the payload names: the last record wins.
OrderMap(updates, id) ==
    LET last == CHOOSE i \in DOMAIN updates :
                    /\ updates[i]["A"] = id
                    /\ \A j \in DOMAIN updates : j > i => updates[j]["A"] # id
    IN  updates[last]["D"]

\* existing_routines after the loop that applies order_map.
ReorderedRoutines(existing_routines, updates) ==
    [r \in 1..Len(existing_routines) |->
       IF \E i \in DOMAIN updates : updates[i]["A"] = existing_routines[r]["A"]
       THEN [existing_routines[r] EXCEPT
               !["D"] = OrderMap(updates, existing_routines[r]["A"])]
       ELSE existing_routines[r]]

\* The request arrives; arg keeps the payload and the index as it was.
CallRoutinesOrder ==
    \E updates \in RoutinesPayloads :
        /\ threads[Handler].pc = "idle"
        /\ retry.pc = "idle"
        /\ threads' = [threads EXCEPT ![Handler] = [IdleThread EXCEPT
                           !.pc = "read", !.op = "routines_order",
                           !.arg = <<updates, routines>>]]
        /\ retry' = [IdleRetry EXCEPT !.pc = "loop",
                                      !.max_retries = RoutinesOrderMaxRetries,
                                      !.base_delay = RoutinesOrderBaseDelay]
        /\ UNCHANGED <<store, gate, now, leaves, conn>>

\* do_update reads the index and applies the payload; records_to_sheet
\* returns True at once when there are no records.
RoutinesOrderRead ==
    LET existing_routines == SheetToRecords("Routines", routines, TRUE)
        records == ReorderedRoutines(existing_routines, threads[Handler].arg[1])
    IN  /\ threads[Handler].pc = "read"
        /\ threads[Handler].op = "routines_order"
        /\ retry.pc = "loop"
        /\ threads' = IF records = <<>>
                       THEN InCall(Handler, "done", records, TRUE)
                       ELSE InCall(Handler, "clear", records, FALSE)
        /\ retry' = [retry EXCEPT !.calls = @ + 1]
        /\ UNCHANGED <<store, gate, now, leaves, conn>>

\* records_to_sheet clears the data region of the index.
RoutinesOrderClear ==
    /\ threads[Handler].pc = "clear"
    /\ threads[Handler].op = "routines_order"
    /\ retry.pc = "loop"
    /\ routines' = RouteSheetCleared(routines, TRUE)
    /\ threads' = InCall(Handler, "update", threads[Handler].records, FALSE)
    /\ UNCHANGED <<items, worksheets, charts, active, ret, cellBefore, allocated,
                   trusted, gate, now, leaves, retry, conn>>

\* records_to_sheet writes the rows; do_update returns True and
\* retry_on_rate_limit returns it.
RoutinesOrderUpdate ==
    /\ threads[Handler].pc = "update"
    /\ threads[Handler].op = "routines_order"
    /\ retry.pc = "loop"
    /\ routines' = RouteSheetWritten(routines, threads[Handler].records, TRUE)
    /\ threads' = InCall(Handler, "done", threads[Handler].records, TRUE)
    /\ UNCHANGED <<items, worksheets, charts, active, ret, cellBefore, allocated,
                   trusted, gate, now, leaves, retry, conn>>

\* The remote call do_update is about to make (the read, the clear or the
\* write) raises e: retry_on_rate_limit sleeps and runs do_update again
\* from its start for a rate-limit error with retries left, and re-raises
\* otherwise, which the route answers with an error status.
RoutinesOrderRaises ==
    \E e \in ErrorMessages :
        /\ threads[Handler].pc \in {"read", "clear", "update"}
        /\ threads[Handler].op = "routines_order"
        /\ retry.pc = "loop"
        /\ IF RateLimited[e] /\ RetriesRemain(retry.attempt, retry.max_retries)
           THEN /\ retry' = [retry EXCEPT !.pc = "sleep"]
                /\ threads' = InCall(Handler, "read", <<>>, FALSE)
           ELSE /\ retry' = [retry EXCEPT !.pc = "raised", !.result = e]
                /\ threads' = [InCall(Handler, "done", <<>>, FALSE) EXCEPT
                                  ![Handler].error = e]
        /\ UNCHANGED <<store, gate, now, leaves, conn>>

\* The route has answered.
RoutinesOrderReturn ==
    /\ threads[Handler].pc = "done"
    /\ threads[Handler].op = "routines_order"
    /\ threads' = [threads EXCEPT ![Handler] = IdleThread]
    /\ retry' = IdleRetry
    /\ UNCHANGED <<store, gate, now, leaves, conn>>

\* The index holds two routines before the requests start.
InitRoutinesOrder ==
    /\ InitProcs
    /\ items = <<>>
    /\ routines = <<<<"1", "Warmup", "2025-01-01 09:00AM PST", "0">>,
                    <<"2", "Songs", "2025-01-01 09:00AM PST", "1">>>>
    /\ worksheets = [t \in {"1", "2"} |-> <<>>]
    /\ charts = <<>>
    /\ active = ""
    /\ ret = Ret("none", <<>>, TRUE)
    /\ cellBefore = ""
    /\ allocated = [s \in {"Items", "Routines", "ChordCharts", "Routine"} |->
                      IF s = "Routines" THEN 2 ELSE 0]
    /\ trusted = TRUE

NextRoutinesOrder ==
    \/ CallRoutinesOrder
    \/ RoutinesOrderRead
    \/ RoutinesOrderClear
    \/ RoutinesOrderUpdate
    \/ RoutinesOrderRaises
    \/ RetrySleep
    \/ RoutinesOrderReturn

\* Reorder requests for the Routines index, served one after another,
\* with remote calls that may raise.
SpecRoutinesOrder == InitRoutinesOrder /\ [][NextRoutinesOrder]_vars

\* C34: routine reorder under retry: whatever transient failures the
\* remote calls of the handler met, when it reports success the Routines
\* index holds the routines it held before the call, with the same IDs,
\* names and creation stamps and with the requested orders applied.
ReorderSurvivesRetry ==
    (/\ threads[Handler].op = "routines_order"
     /\ threads[Handler].pc = "done"
     /\ threads[Handler].ok)
    => GetAllRoutineRecords(routines)
         = ReorderedRoutines(GetAllRoutineRecords(threads[Handler].arg[2]),
                             threads[Handler].arg[1])

(***************************************************************************)
(* delete_routine interrupted between its two writes.                      *)
(***************************************************************************)
\* delete_routine(routine_id) whose remote calls succeed up to the deletion
\* of the worksheet and raise after it: the index is not rewritten and
\* False is returned.
DeleteRoutineInterruptedOp(cell, index, sheets, routine_id) ==
    LET res == DeleteRoutineOp(cell, index, sheets, routine_id)
    IN  IF res.ok THEN [res EXCEPT !.index = index, !.ok = FALSE] ELSE res

DeleteRoutineInterrupted ==
    \E routine_id \in 1..MaxId :
        LET res == DeleteRoutineInterruptedOp(active, routines, worksheets,
                                              Str(routine_id))
        IN  /\ Str(routine_id) \in DOMAIN worksheets
            /\ DeleteRoutineOp(active, routines, worksheets, Str(routine_id)).ok
            /\ active' = res.cell
            /\ routines' = res.index
            /\ worksheets' = res.sheets
            /\ cellBefore' = active
            /\ ret' = Ret("delete_routine", <<Str(routine_id)>>, res.ok)
            /\ UNCHANGED <<procs, items, charts, allocated, trusted>>

NextRoutineResume == CreateRoutine \/ DeleteRoutineInterrupted \/ DeleteRoutine

\* The Routines index and the routine worksheets under create_routine and
\* delete_routine calls, some of which fail after deleting the worksheet.
SpecRoutineResume == Init /\ [][NextRoutineResume]_vars

\* Whether the index lists the routine while its worksheet is gone.
HalfDeleted(routine_id) ==
    /\ routine_id \notin DOMAIN worksheets
    /\ \E r \in DOMAIN RoutineIndex : RoutineIndex[r]["A"] = routine_id

\* Whether index after is index before with the row of routine_id removed
\* and the Order of every routine ordered after it lowered by 1.
IndexRowRemoved(before, after, routine_id) ==
    LET deleted_order ==
            ToInt(before[CHOOSE r \in DOMAIN before : before[r]["A"] = routine_id]["D"])
    IN  /\ {after[r]["A"] : r \in DOMAIN after}
              = {before[r]["A"] : r \in DOMAIN before} \ {routine_id}
        /\ \A r \in DOMAIN after :
              \E q \in DOMAIN before :
                  /\ before[q]["A"] = after[r]["A"]
                  /\ after[r]["D"] =
                        IF ToInt(before[q]["D"]) > deleted_order
                        THEN Str(ToInt(before[q]["D"]) - 1) ELSE before[q]["D"]

\* C35: delete_routine is resumable: after a delete_routine(id) that
\* failed between deleting the worksheet and rewriting the index, a
\* delete_routine(id) that meets no remote failure returns success, removes
\* the index row of id and lowers the Order of every later routine by 1.
DeleteRoutineResumes ==
    [][(DeleteRoutine /\ HalfDeleted(ret'.ids[1]))
       => /\ ret'.ok
          /\ IndexRowRemoved(RoutineIndex, GetAllRoutineRecords(routines'),
                             ret'.ids[1])]_vars

\* The same resumption where the index lists another routine as well.
DeleteRoutineResumesAmongOthers ==
    [][(DeleteRoutine /\ HalfDeleted(ret'.ids[1]) /\ Len(RoutineIndex) > 1)
       => /\ ret'.ok
          /\ IndexRowRemoved(RoutineIndex, GetAllRoutineRecords(routines'),
                             ret'.ids[1])]_vars

(***************************************************************************)
(* The bulk importer: ChordImporter.retry_with_backoff around an           *)
(* operation, and import_all_chords saving a batch, which wraps            *)
(* save_batch_to_sheet in retry_with_backoff while save_batch_to_sheet     *)
(* itself wraps the sheet write in retry_with_backoff.                     *)
(***************************************************************************)
\* The errors the operation raises: a rate-limit error, an error only
\* retry_with_backoff takes for one, and another error.
BackoffMessages == {"429 Too Many Requests", "503 Service Unavailable",
                    "Worksheet not found"}

BackoffScripts == SeqsUpTo(BackoffMessages, MaxRetries + 1)

\* attempt < self.max_retries - 1
BackoffRetriesRemain(attempt, max_retries) == attempt < max_retries - 1

\* retry_with_backoff(func) is called on its own (nested FALSE), or
\* import_all_chords calls retry_with_backoff(self.save_batch_to_sheet,
\* records) for one batch (nested TRUE).
BackoffCall ==
    /\ retry.pc = "idle"
    /\ \E max_retries \in 0..MaxRetries, base_delay \in 1..MaxBaseDelay,
          script \in BackoffScripts, nested \in BOOLEAN :
        /\ retry' = [IdleRetry EXCEPT !.pc = "loop", !.max_retries = max_retries,
                                      !.base_delay = base_delay, !.script = script,
                                      !.nested = nested]
        /\ UNCHANGED <<store, threads, gate, now, leaves, conn>>

\* One pass of for attempt in range(self.max_retries) of the call that
\* invokes the operation.  An empty range ends the function without a
\* return statement.  The result is returned; an error is followed by a
\* sleep, or raised: to the caller, or, when saving a batch, to the
\* except clause of the outer retry_with_backoff, which sleeps or raises.
BackoffAttempt ==
    /\ retry.pc = "loop"
    /\ IF retry.attempt >= retry.max_retries
       THEN retry' = [retry EXCEPT !.pc = "returned", !.result = "None"]
       ELSE IF retry.calls >= Len(retry.script)
       THEN retry' = [retry EXCEPT !.pc = "returned", !.result = "ok",
                                   !.calls = @ + 1]
       ELSE LET e == retry.script[retry.calls + 1]
            IN  IF /\ BackoffRateLimited[e]
                   /\ BackoffRetriesRemain(retry.attempt, retry.max_retries)
                THEN retry' = [retry EXCEPT !.pc = "sleep", !.calls = @ + 1]
                ELSE IF /\ retry.nested
                        /\ BackoffRateLimited[e]
                        /\ BackoffRetriesRemain(retry.outer, retry.max_retries)
                THEN retry' = [retry EXCEPT !.pc = "outer_sleep", !.calls = @ + 1]
                ELSE retry' = [retry EXCEPT !.pc = "raised", !.result = e,
                                            !.calls = @ + 1]
    /\ UNCHANGED <<store, threads, gate, now, leaves, conn>>

\* time.sleep(delay); continue
BackoffSleep ==
    /\ retry.pc = "sleep"
    /\ retry' = [retry EXCEPT
                    !.pc = "loop",
                    !.sleeps = Append(@, Delay(retry.base_delay, retry.attempt)),
                    !.attempt = @ + 1]
    /\ UNCHANGED <<store, threads, gate, now, leaves, conn>>

\* The outer call sleeps and calls save_batch_to_sheet again, whose
\* retry_with_backoff starts a new range.
BackoffOuterSleep ==
    /\ retry.pc = "outer_sleep"
    /\ retry' = [retry EXCEPT
                    !.pc = "loop",
                    !.sleeps = Append(@, Delay(retry.base_delay, retry.outer)),
                    !.outer = @ + 1,
                    !.attempt = 0]
    /\ UNCHANGED <<store, threads, gate, now, leaves, conn>>

\* The call has ended and the importer goes on.
BackoffReturn ==
    /\ retry.pc \in {"returned", "raised"}
    /\ retry' = IdleRetry
    /\ UNCHANGED <<store, threads, gate, now, leaves, conn>>

NextImport ==
    BackoffCall \/ BackoffAttempt \/ BackoffSleep \/ BackoffOuterSleep \/ BackoffReturn

\* Calls of retry_with_backoff and batch saves of the bulk importer, each
\* run to its end.
SpecImport == Init /\ [][NextImport]_vars

\* C36: retry boundary in the bulk importer: retry_with_backoff with
\* max_retries = M >= 1 around an operation that raises a rate-limit error
\* exactly M times and then succeeds returns the operation's result
\* without surfacing an error, having slept delay * 2^i before retry i.
BackoffBoundary ==
    (/\ ~retry.nested
     /\ retry.max_retries >= 1
     /\ retry.pc \in {"returned", "raised"}
     /\ Len(retry.script) = retry.max_retries
     /\ \A k \in DOMAIN retry.script : BackoffRateLimited[retry.script[k]])
    => /\ retry.pc = "returned"
       /\ retry.result = "ok"
       /\ retry.sleeps = [i \in 1..retry.max_retries |->
                            retry.base_delay * (2 ^ (i - 1))]

\* C37: bounded write attempts in the bulk importer: while a batch is
\* saved the remote sheet write is invoked at most max_retries times.
WritesBounded ==
    retry.nested => retry.calls <= retry.max_retries

(***************************************************************************)
(* The route POST /api/items/bulk.                                         *)
(***************************************************************************)
\* The row bulk_import_items builds for the item at position idx (from 0).
BulkRow(next_id, idx, item) ==
    LET row_id == Str(next_id + idx)
    IN  <<row_id, row_id, item["title"], "", item["duration"], "", row_id, "">>

\* bulk_import_items: next_id is the length of column A, header included;
\* the rows are appended below the last used row.  An item without its
\* title or duration raises and nothing is written.
BulkImportItemsOp(grid, payload) ==
    IF \E i \in DOMAIN payload : ~({"title", "duration"} \subseteq DOMAIN payload[i])
    THEN [grid |-> grid, ok |-> FALSE, ids |-> <<>>]
    ELSE LET first_empty_row == (Len(WsColValues(grid, 1)) + 1) + 1
             next_id == first_empty_row - 1
             rows == [i \in 1..Len(payload) |-> BulkRow(next_id, i - 1, payload[i])]
         IN  [grid |-> IF rows = <<>> THEN grid ELSE TrimRows(grid) \o rows,
              ok |-> TRUE,
              ids |-> [i \in 1..Len(rows) |-> rows[i][1]]]

\* The request bodies: one item, two items, none, an item without its
\* duration.
BulkPayloads == {<<[title |-> "Lick", duration |-> "5"]>>,
                 <<[title |-> "Lick", duration |-> "5"],
                   [title |-> "Riff", duration |-> "10"]>>,
                 <<>>,
                 <<[title |-> "Lick"]>>}

BulkImportItems ==
    \E payload \in BulkPayloads :
        LET res == BulkImportItemsOp(items, payload)
        IN  /\ Len(ItemRecords) + Len(payload) <= MaxRecords
            /\ items' = res.grid
            /\ ret' = Ret("bulk_import_items", res.ids, res.ok)
            /\ trusted' = FALSE
            /\ UNCHANGED <<procs, routines, worksheets, charts, active, cellBefore,
                           allocated>>

NextBulk == AddItem \/ DeleteItem \/ BulkImportItems

\* The Items sheet under add_item, delete_item and the bulk import route;
\* trusted holds while only add_item and delete_item have been called.
SpecBulk == Init /\ [][NextBulk]_vars

\* C38: bulk item import keeps IDs unique: on an Items sheet reached by
\* add_item and delete_item calls, the IDs bulk_import_items gives the
\* imported rows differ from every stored ID and from each other, so no
\* two stored items share an ID after the import.
BulkImportIdsFresh ==
    [][(BulkImportItems /\ trusted /\ UniqueIds(ItemRecords))
       => /\ \A i \in DOMAIN ret'.ids :
                 /\ \A r \in DOMAIN ItemRecords : ItemRecords[r]["A"] # ret'.ids[i]
                 /\ \A j \in DOMAIN ret'.ids : ret'.ids[i] = ret'.ids[j] => i = j
          /\ UniqueIds(SheetToRecords("Items", items', FALSE))]_vars

(***************************************************************************)
(* Logout and re-authentication.                                           *)
(***************************************************************************)
\* logout_and_redirect(): token.json is removed and the cache of
\* get_credentials is cleared; the cache of get_spread is left as it is.
Logout ==
    /\ conn' = [conn EXCEPT !.token = "none", !.creds = ""]
    /\ UNCHANGED <<store, threads, gate, now, leaves, retry>>

\* oauth2callback(): the new credential is written to token.json and the
\* cache of get_credentials is cleared.
OAuthCallback ==
    /\ conn.token = "none"
    /\ conn' = [conn EXCEPT !.token = "valid", !.creds = ""]
    /\ UNCHANGED <<store, threads, gate, now, leaves, retry>>

\* No thread is in a call.
AllIdle == \A t \in Threads : threads[t].pc = "idle"

NextLogout ==
    \/ AllIdle /\ Logout
    \/ AllIdle /\ OAuthCallback
    \/ AllIdle /\ InvalidateCaches
    \/ \E t \in Threads : OthersIdle(t) /\ (GetSpreadCall(t) \/ GetSpreadStep(t))

\* get_spread calls, one after the other, with logouts, re-authentications
\* and invalidate_caches calls between them.
SpecLogout == InitConn /\ [][NextLogout]_vars

\* C39: logout cuts access: while token.json is gone after a logout and
\* re-authentication has not completed, no get_spread call returns a
\* connection.
LogoutCutsAccess ==
    conn.token = "none"
    => \A t \in Threads :
          ~(threads[t].op = "get_spread" /\ threads[t].pc = "done" /\ threads[t].ok)

(***************************************************************************)
(* An index of more than ten routines.                                     *)
(***************************************************************************)
\* The routines created before the reads start.
ManyRoutines == 11

RECURSIVE ManyCreated(_)
\* The index and worksheets after n create_routine calls with names of
\* their own.
ManyCreated(n) ==
    IF n = 0 THEN [index |-> <<>>, sheets |-> <<>>]
    ELSE LET prev == ManyCreated(n - 1)
             res == CreateRoutineOp(prev.index, prev.sheets, "Routine " \o Str(n))
         IN  [index |-> res.index, sheets |-> res.sheets]

InitManyRoutines ==
    /\ InitProcs
    /\ items = <<>>
    /\ routines = ManyCreated(ManyRoutines).index
    /\ worksheets = ManyCreated(ManyRoutines).sheets
    /\ charts = <<>>
    /\ active = ""
    /\ ret = Ret("none", <<>>, TRUE)
    /\ cellBefore = ""
    /\ allocated = [s \in {"Items", "Routines", "ChordCharts", "Routine"} |->
                      IF s = "Routines" THEN ManyRoutines ELSE 0]
    /\ trusted = TRUE

NextManyRoutines == DeleteRoutine \/ SetRoutineActive

\* get_all_routines read at any time on an index of ManyRoutines routines
\* under delete_routine and set_routine_active.
SpecManyRoutines == InitManyRoutines /\ [][NextManyRoutines]_vars

\* C40: get_all_routines returns the routines sorted by ascending numeric
\* Order, also when some Order values have more digits than others.
RoutinesSortedNumerically ==
    \A i, j \in DOMAIN AllRoutines :
        i < j => ToInt(AllRoutines[i].order) <= ToInt(AllRoutines[j].order)
=============================================================================
